---- MODULE Spec2Model ----
(***************************************************************************)
(* Financial event-detection engine of the stock-research backend:         *)
(*   - the detection sweep (EventReminderTask.run over                      *)
(*     EventManager.detect_all_events) and the events store it upserts to,  *)
(*   - the user-rule matcher and reminder generator (UserRuleTask.run,      *)
(*     generate_and_save_reminder, get_recent_events_by_user_rule).         *)
(* Times are whole seconds counted from midnight of the current day; a      *)
(* wall-clock reading also carries whether its microsecond part is zero.    *)
(***************************************************************************)
EXTENDS Integers, Sequences, FiniteSets, Bags, TLC

(* ------------------------------------------------------------------ *)
(* Bounds of the model                                                 *)
(* ------------------------------------------------------------------ *)
\* number of symbols of the stocks list the sweep walks (a prefix of the list)
MaxStocks == 2
\* number of event documents in the store when a rule tick starts
MaxStored == 2
\* number of active users
MaxUsers == 2
\* length of a user's rule_list
MaxRules == 2
\* values in a historical sample handed to a baseline calculator
MaxHistory == 3
\* executions of the rule task, one after the other
MaxTicks == 2
\* calls of run(user_id) by one caller
MaxRuns == 2
\* the greatest max_history a ConversationManager is built with
MaxHistoryLimit == 3
\* the longest history handed to save_history
MaxMessages == 5

(* ------------------------------------------------------------------ *)
(* Program constants                                                   *)
(* ------------------------------------------------------------------ *)
\* datetime.timedelta(minutes=5), in seconds
WindowSeconds == 300
\* 08:56:30, the fixed time the board / attention detectors stamp events with
FixedStampSecond == 32190
\* seconds of one day
DaySeconds == 24 * 3600

\* stocks = ['000001', '000063', '600519', '601318', '002415']
StockList == <<"000001", "000063", "600519", "601318", "002415">>
Stocks == {StockList[i] : i \in 1..MaxStocks}

(* ------------------------------------------------------------------ *)
(* event_time strings                                                  *)
(*   [kind |-> "full", t |-> s]  is "YYYY-MM-DD HH:MM:SS" at second s   *)
(*   [kind |-> "date", t |-> d]  is "YYYY-MM-DD" of day d               *)
(* ------------------------------------------------------------------ *)
FullTime(s) == [kind |-> "full", t |-> s]
DateOnly(d) == [kind |-> "date", t |-> d]

\* lexicographic order of the two string forms: the date part first, then a
\* date-only string is a proper prefix of every full string of that day
StrKey(et) ==
    IF et.kind = "full" THEN <<et.t \div DaySeconds, 1, et.t % DaySeconds>>
    ELSE <<et.t, 0, 0>>

StrGE(a, b) ==
    LET ka == StrKey(a)
        kb == StrKey(b)
    IN  \/ ka[1] > kb[1]
        \/ ka[1] = kb[1] /\ ka[2] > kb[2]
        \/ ka[1] = kb[1] /\ ka[2] = kb[2] /\ ka[3] >= kb[3]

\* event_time.replace("-","").replace(":","").replace(" ","_")[:15]
CompactTime(et) ==
    IF et.kind = "full" THEN <<et.t \div DaySeconds, et.t % DaySeconds>>
    ELSE <<et.t>>

\* FinancialEvent.generate_event_id
generate_event_id(symbol, event_time, event_subtype) ==
    <<symbol, CompactTime(event_time), event_subtype>>

\* a document whose event_id is also made of the detected values
EventDocIdOfValues(symbol, etype, subtype, event_time, val) ==
    [event_id      |-> <<symbol, CompactTime(event_time), subtype, val>>,
     symbol        |-> symbol,
     event_type    |-> etype,
     event_subtype |-> subtype,
     event_time    |-> event_time,
     val           |-> val]

\* FinancialEvent(...).to_dict(): the stored document; val stands for the
\* detected values (trigger_rule, impact_level, sentiment, raw_data, ...)
EventDoc(symbol, etype, subtype, event_time, val) ==
    [event_id      |-> generate_event_id(symbol, event_time, subtype),
     symbol        |-> symbol,
     event_type    |-> etype,
     event_subtype |-> subtype,
     event_time    |-> event_time,
     val           |-> val]

(* ------------------------------------------------------------------ *)
(* State                                                               *)
(* ------------------------------------------------------------------ *)
VARIABLES
    events,       \* mongo_db['events']: bag of stored event documents
    board,        \* what ak.stock_board_industry_summary_ths gives
    sweep,        \* the executions of EventReminderTask.run
    firstWrites,  \* observer: the first executed write of every key
    now,          \* datetime.datetime.now() of the rule tick
    user_rule,    \* mongo_db['user_rule']: rule document of every user
    stock_news,   \* mongo_db['stock_news']: sequence of notifications
    task,         \* the execution of UserRuleTask.run
    calls,        \* what generate_and_save_reminder did for every user
    probe,        \* a detector function called on its own: arguments, result
    regen,        \* the calls of run(user_id) that regenerate the rules of a
                  \* user, and the documents of user_rule they leave
    chat          \* a ConversationManager and the history Redis stores for
                  \* one session

vars == <<events, board, sweep, firstWrites,
          now, user_rule, stock_news, task, calls, probe, regen, chat>>

sweepVars == <<events, board, sweep, firstWrites>>
ruleVars == <<now, user_rule, stock_news, task, calls>>

\* detected values matter only up to equality, and two executions observe at
\* most two different snapshots of the market
Vals == {"v1", "v2"}
\* two executions of the sweep, which may overlap or follow one another
Sweeps == {1, 2}

(* ------------------------------------------------------------------ *)
(* Events store: UpdateOne({event_id, event_time}, {$setOnInsert: doc}, *)
(* upsert=True)                                                        *)
(* ------------------------------------------------------------------ *)
SameKey(d, e) == d.event_id = e.event_id /\ d.event_time = e.event_time

\* the stored documents a filter {event_id, event_time} selects
DocsWithKey(store, doc) == {d \in BagToSet(store) : SameKey(d, doc)}

\* number of stored documents with the key of doc
CountKey(store, doc) ==
    LET RECURSIVE Sum(_)
        Sum(S) == IF S = {} THEN 0
                  ELSE LET d == CHOOSE x \in S : TRUE
                       IN  CopiesIn(d, store) + Sum(S \ {d})
    IN  Sum(DocsWithKey(store, doc))

\* insert_many(doc_list): every document is inserted, no dedup
UpsertInsertMany(store, doc) == store (+) SetToBag({doc})

\* {"$set": doc}: a present document is overwritten (update_one changes the
\* first document the filter selects)
UpsertSet(store, doc) ==
    IF DocsWithKey(store, doc) = {} THEN store (+) SetToBag({doc})
    ELSE LET old == CHOOSE d \in DocsWithKey(store, doc) : TRUE
         IN  (store (-) SetToBag({old})) (+) SetToBag({doc})

UpsertIfAbsent(store, doc) ==
    IF DocsWithKey(store, doc) = {} THEN store (+) SetToBag({doc}) ELSE store

(* ------------------------------------------------------------------ *)
(* Detectors                                                           *)
(* ------------------------------------------------------------------ *)
\* provider outcomes for the daily history of one symbol
ProviderOutcomes == {"ok", "quiet", "raises", "empty", "bad_columns"}

\* time of the latest minute bar the trading detector reads
LatestBar == FullTime(34260)

\* DailyIndicatorCalculator._get_daily_data without its try/except
get_daily_data_unguarded(outcome) ==
    CASE outcome = "raises" -> "Exception"
      [] outcome = "empty" -> "None"
      [] outcome = "bad_columns" -> "frame_without_volume"
      [] OTHER -> "frame"

\* DailyIndicatorCalculator._get_daily_data: None when the provider raises
\* or returns nothing, otherwise the frame
get_daily_data(outcome) ==
    CASE outcome = "raises" -> "None"
      [] outcome = "empty" -> "None"
      [] outcome = "bad_columns" -> "frame_without_volume"
      [] OTHER -> "frame"

\* DailyIndicatorCalculator.get_daily_indicators: the indicator
\* computations run outside any try block
get_daily_indicators(outcome) ==
    LET daily_df == get_daily_data(outcome)
    IN  CASE daily_df = "None" -> "None"
          [] daily_df = "Exception" -> "Exception"
          [] daily_df = "frame_without_volume" -> "KeyError"
          [] OTHER -> "indicators"

\* TradingEventDetector.detect(symbol)
TradingDetect(symbol, outcome, obs) ==
    LET daily_indicators == get_daily_indicators(outcome)
    IN  CASE daily_indicators = "None" -> [raised |-> FALSE, events |-> <<>>]
          [] daily_indicators \in {"KeyError", "Exception"} ->
                 [raised |-> TRUE, events |-> <<>>]
          [] outcome = "quiet" -> [raised |-> FALSE, events |-> <<>>]
          [] OTHER ->
                 [raised |-> FALSE,
                  events |-> <<EventDoc(symbol, "trading", "limit_up",
                                        LatestBar, obs)>>]

\* default_config of the board detector: capital_inflow_threshold and
\* capital_outflow_threshold in 1e8 yuan, price_rise_threshold and
\* price_fall_threshold in hundredths of a percent
CapitalInflowThreshold == 30
CapitalOutflowThreshold == -10
PriceRiseThreshold == 300
PriceFallThreshold == -70

\* the board of the summary table
BoardName == "food_beverage"

\* what ak.stock_board_industry_summary_ths gives for the board: nothing, or
\* its row with the price change and the net inflow
\* what ak.stock_hot_up_em gives besides: hot_rank, the current rank of the
\* listed stock on the attention list, 0 when the list is empty
NoBoardData == [data |-> FALSE, price_change |-> 0, net_inflow |-> 0, hot_rank |-> 0]
BoardRow(price_change, net_inflow) ==
    [data |-> TRUE, price_change |-> price_change, net_inflow |-> net_inflow,
     hot_rank |-> 0]
HotListRow(current_rank) == [NoBoardData EXCEPT !.hot_rank = current_rank]
BoardSamples ==
    {NoBoardData,
     HotListRow(1),
     BoardRow(0, CapitalInflowThreshold),
     BoardRow(0, CapitalInflowThreshold + 5),
     BoardRow(PriceRiseThreshold + 50, CapitalInflowThreshold)}

\* BaseEventDetector._get_current_time(): today at the fixed time
FixedStamp == FullTime(FixedStampSecond)

\* _detect_price_events
DetectPriceEvents(board_info, event_time, obs) ==
    (IF board_info.price_change >= PriceRiseThreshold
     THEN <<EventDoc(BoardName, "industry", "price_rise_abnormal", event_time, obs)>>
     ELSE <<>>)
    \o (IF board_info.price_change <= PriceFallThreshold
        THEN <<EventDoc(BoardName, "industry", "price_fall_abnormal", event_time, obs)>>
        ELSE <<>>)

\* _detect_capital_events: event_type is EventType.CAPITAL_FLOW
DetectCapitalEvents(board_info, event_time, obs) ==
    (IF board_info.net_inflow > CapitalInflowThreshold
     THEN <<EventDoc(BoardName, "capital_flow", "capital_inflow_abnormal",
                     event_time, obs)>>
     ELSE <<>>)
    \o (IF board_info.net_inflow < CapitalOutflowThreshold
        THEN <<EventDoc(BoardName, "capital_flow", "capital_outflow_abnormal",
                        event_time, obs)>>
        ELSE <<>>)

\* a board detector that stamps its events with the time of the sweep that
\* observes them
IndustryDetectStampedBySweep(boardData, obs) ==
    LET event_time == FullTime(FixedStampSecond + (IF obs = "v1" THEN 0 ELSE 60))
    IN  IF ~boardData.data THEN <<>>
        ELSE DetectPriceEvents(boardData, event_time, obs)
             \o DetectCapitalEvents(boardData, event_time, obs)

\* IndustryBoardEventDetector.detect(): no events without data, otherwise
\* the events of the board, all with the fixed stamp of the day
IndustryDetect(boardData, obs) ==
    IF ~boardData.data THEN <<>>
    ELSE DetectPriceEvents(boardData, FixedStamp, obs)
         \o DetectCapitalEvents(boardData, FixedStamp, obs)

\* the stock of the attention list
HotStock == "688226"

\* SentimentEventDetector.detect(symbol=None): the event of the first rank
\* of the attention list, with _get_current_time_second() as its stamp,
\* which is the fixed stamp of the day as well
SentimentDetect(boardData, obs) ==
    IF boardData.hot_rank = 1
    THEN <<EventDoc(HotStock, "sentiment", "top1_rank", FixedStamp, obs)>>
    ELSE <<>>

\* EventManager.detect_all_events(symbol): the detectors are called one
\* after the other with no try block around them
detect_all_events(symbol, outcome, boardData, obs) ==
    LET trading == TradingDetect(symbol, outcome, obs)
    IN  IF trading.raised THEN [raised |-> TRUE, events |-> <<>>]
        ELSE [raised |-> FALSE,
              events |-> trading.events \o IndustryDetect(boardData, obs)
                         \o SentimentDetect(boardData, obs)]

(* ------------------------------------------------------------------ *)
(* TradingEventDetector: events of the latest minute bar               *)
(*   percentages are integers in thousandths of a percent              *)
(* ------------------------------------------------------------------ *)
Abs(x) == IF x < 0 THEN -x ELSE x

\* round(x, 2) of a percentage: from thousandths to hundredths of a
\* percent, the half going to the even neighbour
Round2(x) ==
    LET q == Abs(x) \div 10
        r == Abs(x) % 10
        up == r > 5 \/ (r = 5 /\ q % 2 = 1)
        m == IF up THEN q + 1 ELSE q
    IN  IF x < 0 THEN -m ELSE m

\* the levels with the cut points one place lower
calculate_impact_level_shifted(deviation) ==
    IF Abs(deviation) > 5 * 1000 THEN "critical"
    ELSE IF Abs(deviation) > 2 * 1000 THEN "high"
    ELSE IF Abs(deviation) > 1 * 1000 THEN "medium"
    ELSE "low"

\* EventDetector._calculate_impact_level(deviation)
calculate_impact_level(deviation) ==
    IF Abs(deviation) > 10 * 1000 THEN "critical"
    ELSE IF Abs(deviation) > 5 * 1000 THEN "high"
    ELSE IF Abs(deviation) > 2 * 1000 THEN "medium"
    ELSE "low"

\* TriggerRule(metric, value, threshold, operator); value and threshold in
\* hundredths of a percent
TriggerRule(metric, value, threshold, operator) ==
    [metric |-> metric, value |-> value, threshold |-> threshold,
     operator |-> operator]

\* _detect_price_jump that writes the operator of its own test into the rule
detect_price_jump_test_operator(symbol, price_threshold, real_time_pct, event_time) ==
    IF Abs(real_time_pct) >= price_threshold
    THEN <<EventDoc(symbol, "trading", "price_jump", event_time,
             [trigger_rule |->
                  TriggerRule("real_time_price_jump", Round2(real_time_pct),
                              Round2(price_threshold),
                              IF real_time_pct > 0 THEN ">=" ELSE "<="),
              sentiment |-> IF real_time_pct > 0 THEN "positive" ELSE "negative",
              impact_level |-> calculate_impact_level(real_time_pct)])>>
    ELSE <<>>

\* TradingEventDetector._detect_price_jump
detect_price_jump(symbol, price_threshold, real_time_pct, event_time) ==
    IF Abs(real_time_pct) >= price_threshold
    THEN <<EventDoc(symbol, "trading", "price_jump", event_time,
             [trigger_rule |->
                  TriggerRule("real_time_price_jump", Round2(real_time_pct),
                              Round2(price_threshold),
                              IF real_time_pct > 0 THEN ">" ELSE "<"),
              sentiment |-> IF real_time_pct > 0 THEN "positive" ELSE "negative",
              impact_level |-> calculate_impact_level(real_time_pct)])>>
    ELSE <<>>

\* config: limit_move_threshold, 9.9 percent
LimitMoveThreshold == 9900

\* TradingEventDetector._detect_limit_move
detect_limit_move(symbol, limit_threshold, real_time_pct, event_time) ==
    LET is_limit_up == real_time_pct >= limit_threshold
        is_limit_down == real_time_pct <= -limit_threshold
        subtype == IF is_limit_up THEN "limit_up" ELSE "limit_down"
    IN  IF is_limit_up \/ is_limit_down
        THEN <<EventDoc(symbol, "trading", subtype, event_time,
                 [trigger_rule |->
                      TriggerRule("real_time_limit_move", Round2(real_time_pct),
                                  IF is_limit_up THEN limit_threshold \div 10
                                  ELSE -(limit_threshold \div 10),
                                  IF is_limit_up THEN ">" ELSE "<"),
                  sentiment |-> IF is_limit_up THEN "positive" ELSE "negative",
                  impact_level |-> "critical"])>>
        ELSE <<>>

\* f"ma{ma_period}_cross_up" and f"ma{ma_period}_cross_down"
MaCrossSubtype(ma_period, up) ==
    CASE ma_period = 5 /\ up -> "ma5_cross_up"
      [] ma_period = 5 /\ ~up -> "ma5_cross_down"
      [] ma_period = 10 /\ up -> "ma10_cross_up"
      [] OTHER -> "ma10_cross_down"

\* (real_time_close - ma_value) / ma_value * 100, prices in cents, the
\* result in thousandths of a percent
MaDeviation(real_time_close, ma_value) ==
    LET mag == (Abs(real_time_close - ma_value) * 100000) \div ma_value
    IN  IF real_time_close < ma_value THEN -mag ELSE mag

\* the periods of ma_values, in the order of the dict
MaPeriods == <<5, 10>>

\* TradingEventDetector._detect_ma_cross: for every period with a moving
\* average, the close of the latest bar against the average
detect_ma_cross(symbol, ma_values, real_time_close, event_time) ==
    LET RECURSIVE Each(_)
        Each(i) ==
            IF i > Len(MaPeriods) THEN <<>>
            ELSE LET ma_period == MaPeriods[i]
                 IN  (IF ma_period \notin DOMAIN ma_values
                         \/ real_time_close = ma_values[ma_period]
                      THEN <<>>
                      ELSE LET ma_value == ma_values[ma_period]
                               up == real_time_close > ma_value
                               deviation == MaDeviation(real_time_close, ma_value)
                           IN  <<EventDoc(symbol, "trading",
                                   MaCrossSubtype(ma_period, up), event_time,
                                   [trigger_rule |->
                                        TriggerRule(IF ma_period = 5
                                                    THEN "real_time_ma5_cross"
                                                    ELSE "real_time_ma10_cross",
                                                    Round2(deviation), 0,
                                                    IF up THEN ">" ELSE "<"),
                                    sentiment |-> IF up THEN "positive"
                                                  ELSE "negative",
                                    impact_level |->
                                        calculate_impact_level(deviation)])>>)
                     \o Each(i + 1)
    IN  Each(1)

\* TradingEventDetector.detect, step 3, for the detectors that read the
\* price change of the latest bar: the events of the price jump and of the
\* limit move, in the order of the calls
detect_from_latest_bar(symbol, daily_indicators, real_time_pct, event_time) ==
    detect_price_jump(symbol, daily_indicators.price_jump_threshold,
                      real_time_pct, event_time)
    \o detect_limit_move(symbol, daily_indicators.limit_move_threshold,
                         real_time_pct, event_time)

(* ------------------------------------------------------------------ *)
(* Baseline calculators: thresholds from historical samples            *)
(*   a sample is the non-decreasing sequence of its absolute values,   *)
(*   in thousandths of a percent                                       *)
(* ------------------------------------------------------------------ *)
SortedSamples(values) ==
    {q \in UNION {[1..n -> values] : n \in 0..MaxHistory} :
        \A i \in 1..Len(q) : \A j \in 1..Len(q) : i < j => q[i] <= q[j]}

\* the quantile qn/qd of a sample, interpolated linearly between the two
\* neighbouring values, as Series.quantile and np.percentile compute it
Quantile(sample, qn, qd) ==
    LET pos == (Len(sample) - 1) * qn
        lo == pos \div qd
        rem == pos % qd
    IN  IF rem = 0 THEN sample[lo + 1]
        ELSE sample[lo + 1] + ((sample[lo + 2] - sample[lo + 1]) * rem) \div qd

Max(a, b) == IF a >= b THEN a ELSE b

\* DailyIndicatorCalculator._calc_price_jump_threshold: the 0.9 quantile of
\* the absolute daily changes
calc_price_jump_threshold(changes) == Quantile(changes, 90, 100)

\* TradingEventDetector.detect(symbol) on the daily history the provider
\* gives (its outcome and its absolute daily changes) and the price change
\* of the latest bar: skipped when get_daily_indicators gives None
detect_with_history(symbol, outcome, changes, real_time_pct, event_time) ==
    LET daily_indicators == get_daily_indicators(outcome)
    IN  CASE daily_indicators = "None" ->
                 [raised |-> FALSE, skipped |-> TRUE, events |-> <<>>]
          [] daily_indicators \in {"KeyError", "Exception"} ->
                 [raised |-> TRUE, skipped |-> FALSE, events |-> <<>>]
          [] OTHER ->
                 [raised |-> FALSE, skipped |-> FALSE,
                  events |-> detect_from_latest_bar(
                                 symbol,
                                 [price_jump_threshold |->
                                      calc_price_jump_threshold(changes),
                                  limit_move_threshold |-> LimitMoveThreshold],
                                 real_time_pct, event_time)]

\* "return 0.02", the default of the volatility threshold, 2 percent
DefaultVolatilityThreshold == 2000

\* DailyIndicatorCalculator._calc_volatility_threshold: the default when no
\* return is left, otherwise the volatility_percentile / 100 quantile
calc_volatility_threshold(returns) ==
    IF returns = <<>> THEN DefaultVolatilityThreshold
    ELSE Quantile(returns, 95, 100)

\* config: default_profit_threshold 20.0, default_unlock_threshold 5.0
DefaultProfitThreshold == 20000
DefaultUnlockThreshold == 5000

\* what a company data provider does: raises, gives nothing, or gives rows
CompanyDataOutcomes == {"raises", "empty", "rows"}

\* a company calculator that returns the percentile without the clamp
calc_company_threshold_unclamped(outcome, sample, default) ==
    IF outcome # "rows" \/ sample = <<>> THEN default
    ELSE Quantile(sample, 9, 1000)

\* CompanyIndicatorCalculator._calc_profit_change_threshold and
\* _calc_unlock_ratio_threshold: the default when the provider raises or
\* gives no usable value, otherwise max(np.percentile(sample, percentile),
\* default) with percentile = 90 / 100
calc_company_threshold(outcome, sample, default) ==
    IF outcome # "rows" \/ sample = <<>> THEN default
    ELSE Max(Quantile(sample, 9, 1000), default)

(* ------------------------------------------------------------------ *)
(* MacroNewsEventDetector: sentiment of a news text                    *)
(*   a text is the set of the keywords it contains                     *)
(* ------------------------------------------------------------------ *)
\* SENTIMENT_KEYWORDS["positive"] and ["negative"], three of each
PositiveKeywords == {"raised", "growth", "approved"}
NegativeKeywords == {"lowered", "risk", "crisis"}

\* sum(1 for kw in keywords if kw.lower() in content_lower)
KeywordCount(content, keywords) == Cardinality(content \cap keywords)

\* a sentiment decided by the net count of one polarity over the other
judge_sentiment_net(content) ==
    LET pos_count == KeywordCount(content, PositiveKeywords)
        neg_count == KeywordCount(content, NegativeKeywords)
    IN  IF pos_count - neg_count >= 2 THEN "positive"
        ELSE IF neg_count - pos_count >= 2 THEN "negative"
        ELSE "neutral"

\* MacroNewsEventDetector._judge_sentiment(content)
judge_sentiment(content) ==
    LET pos_count == KeywordCount(content, PositiveKeywords)
        neg_count == KeywordCount(content, NegativeKeywords)
    IN  IF pos_count >= 2 THEN "positive"
        ELSE IF neg_count >= 2 THEN "negative"
        ELSE "neutral"

\* MACRO_KEYWORDS: the categories in the order of the dict, and the
\* keywords of each; a news text is the set of the words it contains, the
\* empty text the empty set
MacroCategories == <<"central_bank", "economic_growth", "financial_regulation">>
MacroKeywords(category) ==
    CASE category = "central_bank" -> {"fed", "rate"}
      [] category = "economic_growth" -> {"gdp", "growth"}
      [] category = "financial_regulation" -> {"regulator"}
      [] OTHER -> {}

\* the category of a text that matches no keyword
GeneralMacroNews == "general_macro_news"

\* f"macro_{category.replace(' ', '_').lower()}"
MacroSubtype(category) ==
    CASE category = "central_bank" -> "macro_central_bank"
      [] category = "economic_growth" -> "macro_economic_growth"
      [] category = "financial_regulation" -> "macro_financial_regulation"
      [] OTHER -> "macro_general_macro_news"

\* config: min_match_count
DefaultMinMatchCount == 1

\* config: critical_impact_keywords
CriticalImpactKeywords == {"fed", "gdp"}

\* MacroNewsEventDetector._classify_macro_news(content): the first
\* category with the greatest count of matched keywords, "" when no
\* keyword of any category matches
classify_macro_news(content) ==
    LET RECURSIVE Best(_, _)
        Best(i, best) ==
            IF i > Len(MacroCategories) THEN best
            ELSE LET current_keywords == content \cap MacroKeywords(MacroCategories[i])
                     current_match == Cardinality(current_keywords)
                 IN  IF current_match > best.match_count
                     THEN Best(i + 1, [category |-> MacroCategories[i],
                                       match_count |-> current_match,
                                       match_keywords |-> current_keywords])
                     ELSE Best(i + 1, best)
    IN  Best(1, [category |-> "", match_count |-> 0, match_keywords |-> {}])

\* MacroNewsEventDetector._determine_impact_level
determine_impact_level(category, match_keywords) ==
    IF match_keywords \cap CriticalImpactKeywords # {}
    THEN (IF category = "central_bank" THEN "critical" ELSE "high")
    ELSE IF category \in {"central_bank", "economic_growth"} THEN "high"
    ELSE IF category = "financial_regulation" THEN "medium"
    ELSE "low"

\* MacroNewsEventDetector._analyze_macro_news(news_row): no event for an
\* empty text, otherwise one event, of the best category or of the general
\* category with a count of 0
analyze_macro_news(news_time, news_content, min_match_count) ==
    IF news_content = {} THEN <<>>
    ELSE LET found == classify_macro_news(news_content)
             classified == IF found.category = ""
                           THEN [category |-> GeneralMacroNews, match_count |-> 0,
                                 match_keywords |-> {}]
                           ELSE found
         IN  <<EventDoc(classified.category, "macro",
                        MacroSubtype(classified.category), news_time,
                        [trigger_rule |->
                             TriggerRule("macro_keyword_matches",
                                         classified.match_count,
                                         min_match_count, ">="),
                         sentiment |-> judge_sentiment(news_content),
                         impact_level |->
                             determine_impact_level(classified.category,
                                                    classified.match_keywords)])>>

(* ------------------------------------------------------------------ *)
(* CompanyEventDetector: performance forecasts                         *)
(* ------------------------------------------------------------------ *)
\* type_mapping.get(forecast_type, ('neutral', ...))[0]
ForecastSentiment(forecast_type) ==
    CASE forecast_type \in {"pre_increase", "turnaround", "slight_increase"} -> "positive"
      [] forecast_type \in {"pre_decrease", "continued_loss", "slight_decrease"} -> "negative"
      [] OTHER -> "neutral"

\* CompanyEventDetector._detect_performance_forecast, one row of the
\* forecast table with a percentage in its content
detect_performance_forecast(symbol, profit_threshold, forecast_type, profit_change, event_time) ==
    LET abs_change == Abs(profit_change)
    IN  IF abs_change >= profit_threshold
        THEN <<EventDoc(symbol, "company", "performance_forecast", event_time,
                 [trigger_rule |->
                      TriggerRule("profit_change_percent", Round2(profit_change),
                                  Round2(profit_threshold),
                                  IF profit_change > 0 THEN ">" ELSE "<"),
                  sentiment |-> ForecastSentiment(forecast_type),
                  impact_level |-> calculate_impact_level(abs_change)])>>
        ELSE <<>>

(* ------------------------------------------------------------------ *)
(* SentimentEventDetector: ranks of the attention list                 *)
(* ------------------------------------------------------------------ *)
\* default_config: top1_threshold, top10_threshold, top50_threshold,
\* top100_threshold
Top1Threshold == 1
Top10Threshold == 10
Top50Threshold == 50
Top100Threshold == 100
DefaultRankConfig ==
    [top1_threshold |-> Top1Threshold, top10_threshold |-> Top10Threshold,
     top50_threshold |-> Top50Threshold, top100_threshold |-> Top100Threshold]

\* one event of a band of the attention list
RankEvent(stock_code, subtype, event_time, current_rank, threshold, operator, level) ==
    EventDoc(stock_code, "sentiment", subtype, event_time,
             [trigger_rule |-> TriggerRule("current_rank", current_rank,
                                           threshold, operator),
              sentiment |-> "positive",
              impact_level |-> level])

\* SentimentEventDetector._detect_top_rank_events, one row: four tests in
\* a row, each with the band's upper limit from the config and the lower
\* limit written in the code
detect_top_rank_events(config, stock_code, current_rank, event_time) ==
    (IF current_rank = config.top1_threshold
     THEN <<RankEvent(stock_code, "top1_rank", event_time, current_rank,
                      config.top1_threshold, "==", "critical")>>
     ELSE <<>>)
    \o (IF 1 < current_rank /\ current_rank <= config.top10_threshold
        THEN <<RankEvent(stock_code, "top10_rank", event_time, current_rank,
                         config.top10_threshold, "<=", "high")>>
        ELSE <<>>)
    \o (IF 10 < current_rank /\ current_rank <= config.top50_threshold
        THEN <<RankEvent(stock_code, "top50_rank", event_time, current_rank,
                         config.top50_threshold, "<=", "medium")>>
        ELSE <<>>)
    \o (IF 50 < current_rank /\ current_rank <= config.top100_threshold
        THEN <<RankEvent(stock_code, "top100_rank", event_time, current_rank,
                         config.top100_threshold, "<=", "low")>>
        ELSE <<>>)

(* ------------------------------------------------------------------ *)
(* User rules: get_recent_events_by_user_rule                          *)
(* ------------------------------------------------------------------ *)
\* str.lower() on the strings rules are written with
Lower(str) ==
    CASE str = "Trading" -> "trading"
      [] str = "LIMIT_UP" -> "limit_up"
      [] str = "Industry" -> "industry"
      [] OTHER -> str

\* str.strip()
StripNone(str) == str

Strip(str) ==
    CASE str = " 000001 " -> "000001"
      [] str = "  " -> ""
      [] OTHER -> str

\* None, the value of a field stored as null; it is not a str
None == "None"

\* the three fields a rule is matched by
RuleKeys == {"event_type", "event_subtype", "related_stock"}

\* rule.get(key, "")
RuleGet(rule, key) == IF key \in DOMAIN rule THEN rule[key] ELSE ""

\* .lower() and .strip() raise AttributeError on None
RuleRaises(rule) == \E key \in RuleKeys : RuleGet(rule, key) = None

\* rules as the rule generator writes them (any letter case, padded codes)
RuleExact ==
    [event_type |-> "trading", event_subtype |-> "limit_up",
     related_stock |-> "000001"]
RuleCased ==
    [event_type |-> "Trading", event_subtype |-> "LIMIT_UP",
     related_stock |-> " 000001 "]
RuleOther ==
    [event_type |-> "trading", event_subtype |-> "limit_up",
     related_stock |-> StockList[2]]
RuleBoard ==
    [event_type |-> "Industry", event_subtype |-> "price_rise_abnormal",
     related_stock |-> BoardName]
RuleNoSubtype ==
    [event_type |-> "trading", event_subtype |-> "",
     related_stock |-> "000001"]
\* a rule document without the related_stock field, and one whose
\* event_subtype is null
RuleNoStock == [event_type |-> "trading", event_subtype |-> "limit_up"]
RuleNullSubtype ==
    [event_type |-> "trading", event_subtype |-> None,
     related_stock |-> "000001"]
\* a rule for the share unlocks of a company
RuleUnlock ==
    [event_type |-> "company", event_subtype |-> "share_unlock",
     related_stock |-> "000001"]

RulePool == <<RuleExact, RuleCased, RuleOther, RuleBoard, RuleNoSubtype>>

\* the rule lists of at most MaxRules rules, taken in pool order
RuleListsOf(pool) ==
    LET RECURSIVE Pick(_, _)
        Pick(S, from) ==
            IF from > Len(pool) THEN <<>>
            ELSE IF from \in S THEN <<pool[from]>> \o Pick(S, from + 1)
                 ELSE Pick(S, from + 1)
    IN  {Pick(S, 1) : S \in {T \in SUBSET (1..Len(pool)) :
                                  Cardinality(T) <= MaxRules}}

RuleLists == RuleListsOf(RulePool)

\* a document of user_rule, or its absence
NoRuleDoc == [present |-> FALSE, rule_list |-> <<>>]
RuleDocs == {NoRuleDoc} \cup {[present |-> TRUE, rule_list |-> l] : l \in RuleLists}

\* now - datetime.timedelta(minutes=5)
FiveMinutesAgo(nowv) == [sec |-> nowv.sec - WindowSeconds, micro |-> nowv.micro]

\* five_minutes_ago.strftime("%Y-%m-%d %H:%M:%S") drops the microseconds
FiveMinutesAgoStr(nowv) == FullTime(nowv.sec - WindowSeconds)

\* event_time >= five_minutes_ago on datetimes: a parsed event_time has no
\* microseconds
ParsedGE(t, bound) == t > bound.sec \/ (t = bound.sec /\ bound.micro = 0)

\* .sort("event_time", -1): descending in the string order
SortDesc(S) ==
    LET RECURSIVE Srt(_)
        Srt(R) == IF R = {} THEN <<>>
                  ELSE LET m == CHOOSE x \in R :
                                   \A y \in R : StrGE(x.event_time, y.event_time)
                       IN  <<m>> \o Srt(R \ {m})
    IN  Srt(S)


\* event_collection.find(query_conditions).sort("event_time", -1)
FindEvents(store, etype, subtype, symbol, since) ==
    SortDesc({e \in BagToSet(store) :
                 /\ e.event_type = etype
                 /\ e.event_subtype = subtype
                 /\ e.symbol = symbol
                 /\ StrGE(e.event_time, since)})

\* a loop over the cursor that keeps an event whose time does not parse
CheckTimesKeepUnparsed(found, nowv) ==
    SelectSeq(found, LAMBDA e : \/ e.event_time.kind # "full"
                                \/ ParsedGE(e.event_time.t, FiveMinutesAgo(nowv)))

\* the loop over the cursor: strptime, the second check of the time, and
\* the skip of an event whose time does not parse
CheckTimes(found, nowv) ==
    SelectSeq(found, LAMBDA e : /\ e.event_time.kind = "full"
                                /\ ParsedGE(e.event_time.t, FiveMinutesAgo(nowv)))

\* the body of "for rule in user_rule_list" for the rule at position r:
\* the events matched, <<>> when the rule is skipped or the query raises
MatchRule(rule, store, nowv, queryRaises) ==
    LET rule_event_type == Lower(RuleGet(rule, "event_type"))
        rule_event_subtype == Lower(RuleGet(rule, "event_subtype"))
        rule_related_stock == Strip(RuleGet(rule, "related_stock"))
    IN  IF rule_event_type = "" \/ rule_event_subtype = ""
           \/ rule_related_stock = ""
        THEN <<>>
        ELSE IF queryRaises THEN <<>>
        ELSE CheckTimes(FindEvents(store, rule_event_type, rule_event_subtype,
                                   rule_related_stock, FiveMinutesAgoStr(nowv)),
                        nowv)

\* what happens to the rule at one position of the list
RuleOutcomes ==
    {"query_raises", "sentinel", "bracketed", "text", "gpt_raises",
     "insert_raises"}

\* a lookup that raises for a user without a rule document or with an
\* empty rule list
get_recent_events_unguarded(doc, store, nowv, lookupRaises, outcome) ==
    LET RECURSIVE Items(_)
        Items(r) ==
            IF r > Len(doc.rule_list) THEN <<>>
            ELSE LET evs == MatchRule(doc.rule_list[r], store, nowv,
                                      outcome[r] = "query_raises")
                 IN  (IF evs = <<>> THEN <<>>
                      ELSE <<[ridx |-> r, rule |-> doc.rule_list[r],
                              events |-> evs]>>) \o Items(r + 1)
    IN  IF lookupRaises \/ ~doc.present \/ doc.rule_list = <<>>
        THEN [raised |-> TRUE, matched_events |-> <<>>]
        ELSE IF \E r \in 1..Len(doc.rule_list) : RuleRaises(doc.rule_list[r])
             THEN [raised |-> TRUE, matched_events |-> <<>>]
             ELSE [raised |-> FALSE, matched_events |-> Items(1)]

\* get_recent_events_by_user_rule(user_id): raised when the rule lookup
\* fails or a field of a rule is None (the AttributeError is raised outside
\* every try of the loop), otherwise matched_events, one item per rule with
\* matches
get_recent_events_by_user_rule(doc, store, nowv, lookupRaises, outcome) ==
    LET RECURSIVE Items(_)
        Items(r) ==
            IF r > Len(doc.rule_list) THEN <<>>
            ELSE LET evs == MatchRule(doc.rule_list[r], store, nowv,
                                      outcome[r] = "query_raises")
                 IN  (IF evs = <<>> THEN <<>>
                      ELSE <<[ridx |-> r, rule |-> doc.rule_list[r],
                              events |-> evs]>>) \o Items(r + 1)
    IN  IF lookupRaises THEN [raised |-> TRUE, matched_events |-> <<>>]
        ELSE IF ~doc.present \/ doc.rule_list = <<>>
             THEN [raised |-> FALSE, matched_events |-> <<>>]
        ELSE IF \E r \in 1..Len(doc.rule_list) : RuleRaises(doc.rule_list[r])
             THEN [raised |-> TRUE, matched_events |-> <<>>]
             ELSE [raised |-> FALSE, matched_events |-> Items(1)]

(* ------------------------------------------------------------------ *)
(* Reminders: generate_and_save_reminder                               *)
(* ------------------------------------------------------------------ *)
\* the texts the renderer gives back: the sentinel, the sentinel wrapped
\* in brackets, and a reminder
NoReminder == "no_reminder"
BracketedNoReminder == "[no_reminder]"
ReminderText == "reminder"

\* gpt(rule, event): the text of the model's answer; which text it is and
\* whether the request raises is the collaborator's choice
gpt(out) ==
    CASE out = "sentinel" -> [raised |-> FALSE, content |-> NoReminder]
      [] out = "bracketed" -> [raised |-> FALSE, content |-> BracketedNoReminder]
      [] out \in {"text", "insert_raises"} ->
             [raised |-> FALSE, content |-> ReminderText]
      [] OTHER -> [raised |-> TRUE, content |-> ""]

\* a test that also takes a text containing the sentinel for the sentinel
IsNoReminderContained(content) == content \in {NoReminder, BracketedNoReminder}

\* reminder_content == (the sentinel)
IsNoReminder(content) == content = NoReminder

\* events[-1]
OldestOf(evs) == evs[Len(evs)]

\* event = events[0]
FirstOf(evs) == evs[1]

\* save_data
SaveData(user_id, event, content) ==
    [trade_date |-> event.event_time, company_of_interest |-> event.symbol,
     report |-> content, user_id |-> user_id]

\* a pass that counts every text it does not insert as a failure
RenderItemCountingUnsavedAsFailed(user_id, item, out) ==
    LET event == FirstOf(item.events)
        answer == gpt(out)
        saves == ~answer.raised /\ ~IsNoReminder(answer.content)
        inserted == saves /\ out # "insert_raises"
    IN  [ridx |-> item.ridx, rule |-> item.rule, event |-> event,
         gpt_raised |-> answer.raised, content |-> answer.content,
         save_data |-> SaveData(user_id, event, answer.content),
         inserted |-> inserted,
         no_reminder |-> ~answer.raised /\ IsNoReminder(answer.content),
         failed |-> ~inserted]

\* one pass of "for item in matched_items"
RenderItem(user_id, item, out) ==
    LET event == FirstOf(item.events)
        answer == gpt(out)
        saves == ~answer.raised /\ ~IsNoReminder(answer.content)
        inserted == saves /\ out # "insert_raises"
    IN  [ridx |-> item.ridx, rule |-> item.rule, event |-> event,
         gpt_raised |-> answer.raised, content |-> answer.content,
         save_data |-> SaveData(user_id, event, answer.content),
         inserted |-> inserted,
         no_reminder |-> ~answer.raised /\ IsNoReminder(answer.content),
         failed |-> answer.raised \/ (saves /\ ~inserted)]

\* generate_and_save_reminder(user_id): the record of one call, with the
\* stats it returns, or raised when get_recent_events_by_user_rule raises
generate_and_save_reminder(user_id, doc, store, nowv, lookupRaises, outcome) ==
    LET matched_result ==
            get_recent_events_by_user_rule(doc, store, nowv, lookupRaises, outcome)
        matched_items == matched_result.matched_events
        renders == [k \in 1..Len(matched_items) |->
                        RenderItem(user_id, matched_items[k],
                                   outcome[matched_items[k].ridx])]
    IN  [user_id |-> user_id,
         raised |-> matched_result.raised,
         lookup_raised |-> lookupRaises,
         query_raised |-> IF matched_result.raised \/ ~doc.present THEN {}
                          ELSE {r \in 1..Len(doc.rule_list) :
                                    outcome[r] = "query_raises"},
         matched_events |-> matched_items,
         renders |-> renders,
         stats |-> [total_rule_event_pairs |-> Len(renders),
                    gpt_no_reminder_count |->
                        Len(SelectSeq(renders, LAMBDA x : x.no_reminder)),
                    saved_reminder_count |->
                        Len(SelectSeq(renders, LAMBDA x : x.inserted)),
                    failed_count |-> Len(SelectSeq(renders, LAMBDA x : x.failed)),
                    saved_ids |->
                        LET ins == SelectSeq(renders, LAMBDA x : x.inserted)
                        IN  [j \in 1..Len(ins) |-> ins[j].ridx]]]

\* an insert that leaves out a document stock_news already holds
InsertAbsent(collection, docs) ==
    LET RECURSIVE Add(_, _)
        Add(acc, i) ==
            IF i > Len(docs) THEN acc
            ELSE IF \E j \in 1..Len(acc) : acc[j] = docs[i] THEN Add(acc, i + 1)
            ELSE Add(Append(acc, docs[i]), i + 1)
    IN  Add(collection, 1)

\* stock_collection.insert_one(save_data), for the documents of a call in
\* order: every document is appended
InsertAll(collection, docs) == collection \o docs

\* the documents a call inserted into stock_news, in order
SavedBy(call) ==
    LET ins == SelectSeq(call.renders, LAMBDA x : x.inserted)
    IN  [k \in 1..Len(ins) |-> ins[k].save_data]

(* ------------------------------------------------------------------ *)
(* EventReminderTask.run                                               *)
(* ------------------------------------------------------------------ *)
\* last: the provider outcome of the latest detection call; swallowed: an
\* earlier call of this run met a provider that raised or returned nothing
\* (both are observers of the detection loop)
\* failed: the operations of the batch the store refused; upserted: the
\* operations that inserted a document (result.upserted_count); printed:
\* the count run has printed, -1 while it has printed none
IdleSweep ==
    [pc |-> "idle", idx |-> 1, obs |-> 1, collected |-> <<>>,
     last |-> "none", swallowed |-> FALSE, pending |-> {},
     failed |-> {}, upserted |-> 0, printed |-> -1]

\* tick: which execution of the rule task this is
IdleTask == [pc |-> "idle", idx |-> 1, users |-> <<>>, caught |-> FALSE, tick |-> 1]
NoProbe == [fn |-> "none"]

\* the callers of run(user_id): requests that may be served at the same
\* time; runs: the calls a caller has started
Callers == {1, 2}
IdleCaller == [pc |-> "idle", rule_list |-> <<>>, runs |-> 0]

\* ConversationManager.__init__: max_history, 20 when not given
DefaultMaxHistory == 20

\* what redis.get gives for the key of the session: None before the first
\* set, the list that was set after it (json.dumps then json.loads of a list
\* of role/content dictionaries gives the list back)
NoHistory == [present |-> FALSE, history |-> <<>>]

\* a manager as constructed, nothing stored for the session; last: the call
\* that stored last and the list it handed to save_history; raised: the
\* latest call raised
ChatManager(max_history) ==
    [max_history |-> max_history, stored |-> NoHistory,
     last |-> [op |-> "none", history |-> <<>>], raised |-> FALSE]

NoChat == ChatManager(DefaultMaxHistory)

\* no call of run(user_id) yet and no rule document; last: how the latest
\* finished call ended; overlapped: a call started while another was in
\* progress (an observer)
NoRegen ==
    [docs |-> <<>>, caller |-> [p \in Callers |-> IdleCaller],
     last |-> [outcome |-> "none", rule_list |-> <<>>], overlapped |-> FALSE]

\* the rule side does not move while sweeps are studied
RuleSideIdle ==
    /\ now = [sec |-> FixedStampSecond, micro |-> 0]
    /\ user_rule = <<>>
    /\ stock_news = <<>>
    /\ task = IdleTask
    /\ calls = <<>>

InitSweep ==
    /\ events = EmptyBag
    /\ board \in BoardSamples
    /\ sweep = [i \in Sweeps |-> IdleSweep]
    /\ firstWrites = {}
    /\ RuleSideIdle
    /\ probe = NoProbe
    /\ regen = NoRegen
    /\ chat = NoChat

\* manager = EventManager(); events = []  (the market snapshot the run
\* observes is fixed when it starts)
StartSweep(i) ==
    /\ sweep[i].pc = "idle"
    /\ \E obs \in Vals :
           sweep' = [sweep EXCEPT ![i] = [IdleSweep EXCEPT !.pc = "detect",
                                                           !.obs = obs]]
    /\ UNCHANGED <<events, board, firstWrites>>
    /\ UNCHANGED <<ruleVars, probe, regen, chat>>

\* one pass of "for stock in stocks": detect_all_events, extend; an
\* exception of detect_all_events leaves run
DetectSymbol(i) ==
    /\ sweep[i].pc = "detect"
    /\ sweep[i].idx <= MaxStocks
    /\ \E outcome \in ProviderOutcomes :
          LET stock == StockList[sweep[i].idx]
              res == detect_all_events(stock, outcome, board, sweep[i].obs)
              failedBefore == sweep[i].swallowed
                              \/ sweep[i].last \in {"raises", "empty"}
          IN  sweep' = [sweep EXCEPT ![i] =
                          IF res.raised
                          THEN [sweep[i] EXCEPT
                                   !.pc = "raised",
                                   !.collected = <<>>,
                                   !.last = outcome,
                                   !.swallowed = failedBefore]
                          ELSE [sweep[i] EXCEPT
                                   !.idx = sweep[i].idx + 1,
                                   !.collected = sweep[i].collected \o res.events,
                                   !.last = outcome,
                                   !.swallowed = failedBefore]]
    /\ UNCHANGED <<events, board, firstWrites>>
    /\ UNCHANGED <<ruleVars, probe, regen, chat>>

\* after the loop: doc_list, the early return on an empty list, and the
\* UpdateOne operations handed to bulk_write
PrepareBulk(i) ==
    /\ sweep[i].pc = "detect"
    /\ sweep[i].idx > MaxStocks
    /\ sweep' = [sweep EXCEPT ![i] =
                    IF sweep[i].collected = <<>>
                    THEN [IdleSweep EXCEPT !.pc = "done",
                                           !.idx = sweep[i].idx,
                                           !.obs = sweep[i].obs]
                    ELSE [IdleSweep EXCEPT
                             !.pc = "write",
                             !.idx = sweep[i].idx,
                             !.obs = sweep[i].obs,
                             !.collected = sweep[i].collected,
                             !.pending = 1..Len(sweep[i].collected)]]
    /\ UNCHANGED <<events, board, firstWrites>>
    /\ UNCHANGED <<ruleVars, probe, regen, chat>>

\* operations of one batch that carry the same document are interchangeable:
\* of those the lowest index is applied first
Applicable(s) ==
    {k \in s.pending :
        \A j \in s.pending : s.collected[j] = s.collected[k] => k <= j}

\* bulk_write(operations, ordered=False): the store takes the pending
\* operations one at a time, in any order, and applies or refuses each
\* (refuses: the operation leaves the store as it was); a refused operation
\* does not stop the others.  After the last one the call returns the result
\* and run prints result.upserted_count, unless an operation was refused:
\* then the call raises BulkWriteError, which run does not catch
BulkOp(i, refused) ==
    /\ sweep[i].pc = "write"
    /\ \E k \in Applicable(sweep[i]) :
          LET doc == sweep[i].collected[k]
              rest == sweep[i].pending \ {k}
              inserts == ~refused /\ DocsWithKey(events, doc) = {}
              failed == IF refused THEN sweep[i].failed \cup {k}
                        ELSE sweep[i].failed
              upserted == IF inserts THEN sweep[i].upserted + 1
                          ELSE sweep[i].upserted
          IN  /\ events' = IF refused THEN events
                           ELSE UpsertIfAbsent(events, doc)
              /\ sweep' = [sweep EXCEPT ![i] =
                             [sweep[i] EXCEPT
                                !.pending = rest,
                                !.failed = failed,
                                !.upserted = upserted,
                                !.printed = IF rest = {} /\ failed = {}
                                            THEN upserted ELSE -1,
                                !.pc = IF rest # {} THEN "write"
                                       ELSE IF failed = {} THEN "done"
                                       ELSE "raised"]]
              /\ firstWrites' =
                    IF refused \/ \E w \in firstWrites : SameKey(w.doc, doc)
                    THEN firstWrites
                    ELSE firstWrites \cup {[doc |-> doc, by |-> i]}
    /\ UNCHANGED board
    /\ UNCHANGED <<ruleVars, probe, regen, chat>>

\* an operation of the batch the store applies
WriteOp(i) == BulkOp(i, FALSE)

\* an operation of the batch the store refuses
RefuseOp(i) == BulkOp(i, TRUE)

NextSweep ==
    \E i \in Sweeps :
        \/ StartSweep(i)
        \/ DetectSymbol(i)
        \/ PrepareBulk(i)
        \/ WriteOp(i)

SpecSweep == InitSweep /\ [][NextSweep]_vars

\* the sweeps with a store that may refuse operations of a batch
NextBulkFaults ==
    \E i \in Sweeps :
        \/ StartSweep(i)
        \/ DetectSymbol(i)
        \/ PrepareBulk(i)
        \/ WriteOp(i)
        \/ RefuseOp(i)

SpecBulkFaults == InitSweep /\ [][NextBulkFaults]_vars

(* ------------------------------------------------------------------ *)
(* UserRuleTask.run                                                    *)
(* ------------------------------------------------------------------ *)
UserList == <<"u1", "u2", "u3", "u4">>
Users == {UserList[i] : i \in 1..MaxUsers}

\* the minute bar of 09:30:00; LatestBar is the bar after it
OpeningBar == FullTime(9 * 3600 + 30 * 60)

\* documents the sweeps have stored: limit-up events of two symbols at minute
\* bars, and a board event with the fixed stamp of the day
StoredLimitUp(symbol, bar) == EventDoc(symbol, "trading", "limit_up", bar, "v1")
StoredBoardRise ==
    IndustryDetect(BoardRow(PriceRiseThreshold + 50, CapitalInflowThreshold), "v1")[1]
EventPool ==
    {StoredLimitUp(StockList[1], OpeningBar), StoredLimitUp(StockList[1], LatestBar),
     StoredLimitUp(StockList[2], OpeningBar), StoredBoardRise}

\* the instants of the rule tick: before the fixed stamp, and 4:59, 5:00 and
\* 5:01 after the opening bar, on a whole second or just after it
TickSeconds ==
    {FixedStampSecond - 90, OpeningBar.t + WindowSeconds - 1,
     OpeningBar.t + WindowSeconds, OpeningBar.t + WindowSeconds + 1}
Ticks == {[sec |-> t, micro |-> m] : t \in TickSeconds, m \in {0, 1}}

\* what the store can hold at a tick: bars that have closed, and the board
\* events, whose stamp does not depend on when the sweep ran
StoresAt(nowv) ==
    {S \in SUBSET {e \in EventPool : \/ e.event_type = "industry"
                                      \/ e.event_time.t <= nowv.sec} :
        Cardinality(S) <= MaxStored}

SweepSideIdle ==
    /\ board = NoBoardData
    /\ sweep = [i \in Sweeps |-> IdleSweep]
    /\ firstWrites = {}

\* one active user, any store, any tick, any rule document
InitReminder ==
    /\ SweepSideIdle
    /\ now \in Ticks
    /\ \E S \in StoresAt(now) : events = SetToBag(S)
    /\ \E doc \in RuleDocs : user_rule = [u \in {UserList[1]} |-> doc]
    /\ stock_news = <<>>
    /\ task = IdleTask
    /\ calls = <<>>
    /\ probe = NoProbe
    /\ regen = NoRegen
    /\ chat = NoChat

\* MaxUsers active users, each without rules or with the two limit-up rules,
\* at a tick where both rules have an event in the window
TaskRuleDocs == {NoRuleDoc, [present |-> TRUE, rule_list |-> <<RuleExact, RuleOther>>]}

InitTask ==
    /\ SweepSideIdle
    /\ now = [sec |-> OpeningBar.t + WindowSeconds - 1, micro |-> 0]
    /\ events = SetToBag({StoredLimitUp(StockList[1], LatestBar),
                          StoredLimitUp(StockList[2], OpeningBar)})
    /\ user_rule \in [Users -> TaskRuleDocs]
    /\ stock_news = <<>>
    /\ task = IdleTask
    /\ calls = <<>>
    /\ probe = NoProbe
    /\ regen = NoRegen
    /\ chat = NoChat

\* list(user_collection.find({"status": ...})): the active users
ActiveUsers ==
    LET ids == {i \in 1..Len(UserList) : UserList[i] \in DOMAIN user_rule}
        RECURSIVE From(_)
        From(i) == IF i > Len(UserList) THEN <<>>
                   ELSE (IF i \in ids THEN <<UserList[i]>> ELSE <<>>) \o From(i + 1)
    IN  From(1)

\* run, up to the loop: the query of the users, inside the try
RunStart ==
    /\ task.pc = "idle"
    /\ \E findRaises \in BOOLEAN :
          task' = IF findRaises
                  THEN [task EXCEPT !.pc = "done", !.caught = TRUE]
                  ELSE [task EXCEPT !.pc = "loop", !.users = ActiveUsers]
    /\ UNCHANGED <<now, user_rule, stock_news, calls>>
    /\ UNCHANGED <<sweepVars, probe, regen, chat>>

\* one pass of "for active_user in active_users"; an exception leaving
\* generate_and_save_reminder is caught by the except of run, after the loop
RunUser ==
    /\ task.pc = "loop"
    /\ task.idx <= Len(task.users)
    /\ LET user_id == task.users[task.idx]
           doc == user_rule[user_id]
       IN  \E lookupRaises \in BOOLEAN,
              outcome \in [1..Len(doc.rule_list) -> RuleOutcomes] :
              LET call == generate_and_save_reminder(user_id, doc, events, now,
                                                     lookupRaises, outcome)
              IN  /\ calls' = Append(calls, call)
                  /\ stock_news' = InsertAll(stock_news, SavedBy(call))
                  /\ task' = IF call.raised
                             THEN [task EXCEPT !.pc = "done", !.caught = TRUE]
                             ELSE [task EXCEPT !.idx = task.idx + 1]
    /\ UNCHANGED <<now, user_rule>>
    /\ UNCHANGED <<sweepVars, probe, regen, chat>>

\* the loop is over
RunEnd ==
    /\ task.pc = "loop"
    /\ task.idx > Len(task.users)
    /\ task' = [task EXCEPT !.pc = "done"]
    /\ UNCHANGED <<now, user_rule, stock_news, calls>>
    /\ UNCHANGED <<sweepVars, probe, regen, chat>>

NextTask == RunStart \/ RunUser \/ RunEnd

SpecReminder == InitReminder /\ [][NextTask]_vars

SpecRuleTask == InitTask /\ [][NextTask]_vars

\* the seconds from one execution of the rule task to the next
TickGaps == {60, 240, 400}

\* the scheduler starts the next execution of the rule task when the
\* execution before it is over
NextTick ==
    /\ task.pc = "done"
    /\ task.tick < MaxTicks
    /\ \E gap \in TickGaps : now' = [now EXCEPT !.sec = now.sec + gap]
    /\ task' = [IdleTask EXCEPT !.tick = task.tick + 1]
    /\ UNCHANGED <<user_rule, stock_news, calls>>
    /\ UNCHANGED <<sweepVars, probe, regen, chat>>

\* one active user with the limit-up rule, alone or after the board rule,
\* limit-up events of the last two bars in the store, and a first tick half
\* a minute after the latest bar
InitTicks ==
    /\ SweepSideIdle
    /\ now = [sec |-> LatestBar.t + 30, micro |-> 0]
    /\ \E S \in SUBSET {StoredLimitUp(StockList[1], OpeningBar),
                         StoredLimitUp(StockList[1], LatestBar)} :
          events = SetToBag(S)
    /\ \E l \in {<<RuleExact>>, <<RuleBoard, RuleExact>>} :
          user_rule = [u \in {UserList[1]} |-> [present |-> TRUE, rule_list |-> l]]
    /\ stock_news = <<>>
    /\ task = IdleTask
    /\ calls = <<>>
    /\ probe = NoProbe
    /\ regen = NoRegen
    /\ chat = NoChat

NextTicks == NextTask \/ NextTick

SpecTicks == InitTicks /\ [][NextTicks]_vars

(* ------------------------------------------------------------------ *)
(* run(user_id): regeneration of the rules of a user                   *)
(* ------------------------------------------------------------------ *)
\* the rule lists get_user_rule may give back
GeneratedRuleLists == {<<RuleExact>>, <<RuleOther>>, <<RuleExact, RuleBoard>>}

\* the user whose rules are regenerated
RegenUser == UserList[1]

\* a call of run(user_id) is in progress for caller p
InProgress(p) == regen.caller[p].pc \in {"find_user", "generate", "delete", "insert"}

\* how a call ends: the caller is free again, and the end is noted
Finish(p, outcome, rule_list) ==
    [regen EXCEPT !.caller[p].pc = outcome,
                  !.last = [outcome |-> outcome, rule_list |-> rule_list]]

\* update_investment_profile calls run(g.user_id)
StartRun(p) ==
    /\ ~InProgress(p)
    /\ regen.caller[p].runs < MaxRuns
    /\ regen' = [regen EXCEPT
                    !.caller[p] = [pc |-> "find_user", rule_list |-> <<>>,
                                   runs |-> regen.caller[p].runs + 1],
                    !.overlapped = regen.overlapped
                                   \/ \E q \in Callers \ {p} : InProgress(q)]
    /\ UNCHANGED <<sweepVars, ruleVars, probe, chat>>

\* step 2 of run: user_collection.find_one and the profile; an exception
\* is raised again
FindUser(p) ==
    /\ regen.caller[p].pc = "find_user"
    /\ \E found \in BOOLEAN :
          regen' = IF found THEN [regen EXCEPT !.caller[p].pc = "generate"]
                   ELSE Finish(p, "failed", <<>>)
    /\ UNCHANGED <<sweepVars, ruleVars, probe, chat>>

\* step 3 of run: get_user_rule; the request or json.loads may raise
GenerateRules(p) ==
    /\ regen.caller[p].pc = "generate"
    /\ \/ \E l \in GeneratedRuleLists :
             regen' = [regen EXCEPT !.caller[p].pc = "delete",
                                    !.caller[p].rule_list = l]
       \/ regen' = Finish(p, "failed", <<>>)
    /\ UNCHANGED <<sweepVars, ruleVars, probe, chat>>

\* step 4 of run, rule_collection.delete_many({"user_id": user_id})
DeleteMany(p) ==
    /\ regen.caller[p].pc = "delete"
    /\ \/ regen' = [regen EXCEPT
                       !.caller[p].pc = "insert",
                       !.docs = SelectSeq(regen.docs,
                                          LAMBDA d : d.user_id # RegenUser)]
       \/ regen' = Finish(p, "failed", <<>>)
    /\ UNCHANGED <<sweepVars, ruleVars, probe, chat>>

\* step 4 of run, rule_collection.insert_one(rule_doc), and the return
InsertOne(p) ==
    /\ regen.caller[p].pc = "insert"
    /\ \/ regen' = [Finish(p, "returned", regen.caller[p].rule_list) EXCEPT
                       !.docs = Append(regen.docs,
                                       [user_id |-> RegenUser,
                                        rule_list |-> regen.caller[p].rule_list,
                                        status |-> "active"])]
       \/ regen' = Finish(p, "failed", <<>>)
    /\ UNCHANGED <<sweepVars, ruleVars, probe, chat>>

InitRegen ==
    /\ events = EmptyBag
    /\ SweepSideIdle
    /\ RuleSideIdle
    /\ probe = NoProbe
    /\ regen = NoRegen
    /\ chat = NoChat

NextRegen ==
    \E p \in Callers :
        \/ StartRun(p)
        \/ FindUser(p)
        \/ GenerateRules(p)
        \/ DeleteMany(p)
        \/ InsertOne(p)

SpecRegen == InitRegen /\ [][NextRegen]_vars

(* ------------------------------------------------------------------ *)
(* ConversationManager: the stored history of a session                *)
(* ------------------------------------------------------------------ *)
\* history[-n:] of Python: the last n elements, the whole list when it has
\* fewer, and the whole list when n = 0 (as -0 is 0)
PySuffix(history, n) ==
    IF n = 0 THEN history
    ELSE LET start == IF Len(history) > n THEN Len(history) - n ELSE 0
         IN  SubSeq(history, start + 1, Len(history))

\* save_history with the first message dropped when it compresses
CompressHistoryKeepingLatest(history, max_history) ==
    IF Len(history) > max_history
    THEN PySuffix(history, max_history)
    ELSE history

\* save_history, the compression of the list before it is set
CompressHistory(history, max_history) ==
    IF Len(history) > max_history
    THEN <<history[1]>> \o PySuffix(history, max_history - 1)
    ELSE history

\* save_history: compress, then redis.set
SaveHistory(op, history) ==
    [chat EXCEPT
       !.stored = [present |-> TRUE,
                   history |-> CompressHistory(history, chat.max_history)],
       !.last = [op |-> op, history |-> history],
       !.raised = FALSE]

\* the contents of the messages
UserContents == {"q1", "q2"}
AssistantContents == {"a1"}
Messages ==
    {[role |-> "user", content |-> c] : c \in UserContents}
    \cup {[role |-> "assistant", content |-> c] : c \in AssistantContents}

\* the lists save_history is called with
Histories == UNION {[1..n -> Messages] : n \in 0..MaxMessages}

save_history ==
    /\ \E history \in Histories : chat' = SaveHistory("save_history", history)
    /\ UNCHANGED <<sweepVars, ruleVars, probe, regen>>

\* add_user_message: an empty list when nothing is stored
add_user_message ==
    /\ Len(chat.stored.history) < MaxMessages
    /\ \E content \in UserContents :
          chat' = SaveHistory("add_user_message",
                              Append(chat.stored.history,
                                     [role |-> "user", content |-> content]))
    /\ UNCHANGED <<sweepVars, ruleVars, probe, regen>>

\* add_assistant_message: None.append raises when nothing is stored
add_assistant_message ==
    /\ Len(chat.stored.history) < MaxMessages
    /\ \E content \in AssistantContents :
          chat' = IF chat.stored.present
                  THEN SaveHistory("add_assistant_message",
                                   Append(chat.stored.history,
                                          [role |-> "assistant",
                                           content |-> content]))
                  ELSE [chat EXCEPT !.raised = TRUE]
    /\ UNCHANGED <<sweepVars, ruleVars, probe, regen>>

InitChat ==
    /\ events = EmptyBag
    /\ SweepSideIdle
    /\ RuleSideIdle
    /\ probe = NoProbe
    /\ regen = NoRegen
    /\ chat \in {ChatManager(max_history) : max_history \in 1..MaxHistoryLimit}

NextChat == save_history \/ add_user_message \/ add_assistant_message

SpecChat == InitChat /\ [][NextChat]_vars

\* share-unlock events of a company: stamped with the unlock date of the
\* release queue (today's, tomorrow's), or with the time of detection when
\* the row carries no date
StoredUnlock(event_time) ==
    EventDoc(StockList[1], "company", "share_unlock", event_time, "v1")
UnlockToday == StoredUnlock(DateOnly(0))
UnlockTomorrow == StoredUnlock(DateOnly(1))
UnlockStamped == StoredUnlock(FullTime(OpeningBar.t + 60))
FaultEventPool ==
    {StoredLimitUp(StockList[1], LatestBar), UnlockToday, UnlockTomorrow,
     UnlockStamped}

\* rules with a field missing, empty or null among complete rules
FaultRulePool ==
    <<RuleUnlock, RuleNoSubtype, RuleNoStock, RuleNullSubtype, RuleExact>>

\* one active user whose rule list may hold incomplete rules, a store that
\* may hold events stamped with a date only, at a tick where the stamped
\* events lie in the window
InitRuleFaults ==
    /\ SweepSideIdle
    /\ now = [sec |-> OpeningBar.t + WindowSeconds - 1, micro |-> 0]
    /\ \E S \in SUBSET FaultEventPool :
          /\ Cardinality(S) <= MaxStored + 1
          /\ events = SetToBag(S)
    /\ \E l \in RuleListsOf(FaultRulePool) :
          user_rule = [u \in {UserList[1]} |-> [present |-> TRUE, rule_list |-> l]]
    /\ stock_news = <<>>
    /\ task = IdleTask
    /\ calls = <<>>
    /\ probe = NoProbe
    /\ regen = NoRegen
    /\ chat = NoChat

SpecRuleFaults == InitRuleFaults /\ [][NextTask]_vars

(* ------------------------------------------------------------------ *)
(* Sweeps and rule ticks together                                      *)
(* ------------------------------------------------------------------ *)
\* the rule a user holds for inflows into the board
RuleBoardInflow ==
    [event_type |-> "industry", event_subtype |-> "capital_inflow_abnormal",
     related_stock |-> BoardName]

\* an empty store, the board at or above the inflow threshold, one active
\* user with the board rule, and a rule tick half a minute after the fixed
\* stamp, so that a sweep of the last five minutes has stamped its events
\* inside the window
InitEndToEnd ==
    /\ events = EmptyBag
    /\ board \in {BoardRow(0, CapitalInflowThreshold),
                  BoardRow(0, CapitalInflowThreshold + 5)}
    /\ sweep = [i \in Sweeps |-> IdleSweep]
    /\ firstWrites = {}
    /\ now = [sec |-> FixedStampSecond + 30, micro |-> 0]
    /\ user_rule = [u \in {UserList[1]} |->
                       [present |-> TRUE, rule_list |-> <<RuleBoardInflow>>]]
    /\ stock_news = <<>>
    /\ task = IdleTask
    /\ calls = <<>>
    /\ probe = NoProbe
    /\ regen = NoRegen
    /\ chat = NoChat

NextEndToEnd == NextSweep \/ NextTask

SpecEndToEnd == InitEndToEnd /\ [][NextEndToEnd]_vars

(* ------------------------------------------------------------------ *)
(* The detectors' functions, each called on samples of provider data   *)
(* ------------------------------------------------------------------ *)
\* price changes of the latest bar against the last daily close, and
\* price-jump thresholds, in thousandths of a percent
PctSamples ==
    {-6500, 0, 1000, 3000, 4200, 6000, 6500, 6504, 6506, 9900, 11000}
PriceThresholdSamples == {500, 2500, 4200, 7000}

\* nothing stored, no task running, no detector called yet; every action
\* below is one call of a detector function, made in this state
InitDetect ==
    /\ events = EmptyBag
    /\ SweepSideIdle
    /\ RuleSideIdle
    /\ probe = NoProbe
    /\ regen = NoRegen
    /\ chat = NoChat

\* TradingEventDetector.detect(symbol) with daily indicators and a latest
\* bar at hand
CallTradingDetect ==
    /\ probe = NoProbe
    /\ \E symbol \in {StockList[1], StockList[3]},
          threshold \in PriceThresholdSamples, pct \in PctSamples :
          probe' = [fn |-> "detect", symbol |-> symbol,
                    price_jump_threshold |-> threshold,
                    real_time_pct |-> pct,
                    events |-> detect_from_latest_bar(
                                   symbol,
                                   [price_jump_threshold |-> threshold,
                                    limit_move_threshold |-> LimitMoveThreshold],
                                   pct, LatestBar)]
    /\ UNCHANGED <<sweepVars, ruleVars, regen, chat>>

\* MacroNewsEventDetector._judge_sentiment on a news text
CallJudgeSentiment ==
    /\ probe = NoProbe
    /\ \E content \in SUBSET (PositiveKeywords \cup NegativeKeywords) :
          probe' = [fn |-> "judge_sentiment", content |-> content,
                    sentiment |-> judge_sentiment(content)]
    /\ UNCHANGED <<sweepVars, ruleVars, regen, chat>>

\* absolute daily changes and returns, profit changes and unlock ratios
ChangeSamples == {500, 1000, 3000}
ProfitChangeSamples == {5000, 20000, 50000}
UnlockRatioSamples == {1000, 5000, 9000}

\* TradingEventDetector.detect(symbol): the provider of the daily history
\* raises, gives nothing, gives a frame without the volume column, or gives
\* a frame of at least one row
CallDetectWithHistory ==
    /\ probe = NoProbe
    /\ \E outcome \in ProviderOutcomes \ {"quiet"},
          changes \in SortedSamples(ChangeSamples), pct \in {0, 3000, 11000} :
          /\ outcome \in {"raises", "empty"} <=> changes = <<>>
          /\ LET res == detect_with_history(StockList[1], outcome, changes,
                                            pct, LatestBar)
             IN  probe' = [fn |-> "detect_with_history", outcome |-> outcome,
                           changes |-> changes, real_time_pct |-> pct,
                           raised |-> res.raised, skipped |-> res.skipped,
                           events |-> res.events]
    /\ UNCHANGED <<sweepVars, ruleVars, regen, chat>>

\* profit changes of a forecast, in thousandths of a percent
ForecastChangeSamples ==
    {-50000, -20000, -5000, 0, 3000, 5000, 19990, 20000, 50000}

\* CompanyEventDetector.detect, the performance forecast: the threshold of
\* the calculator, then one row of the forecast table
CallDetectPerformanceForecast ==
    /\ probe = NoProbe
    /\ \E outcome \in CompanyDataOutcomes,
          profit_changes \in SortedSamples(ProfitChangeSamples),
          forecast_type \in {"pre_increase", "pre_decrease", "uncertain"},
          profit_change \in ForecastChangeSamples :
          /\ outcome # "rows" => profit_changes = <<>>
          /\ LET profit_threshold ==
                     calc_company_threshold(outcome, profit_changes,
                                            DefaultProfitThreshold)
             IN  probe' = [fn |-> "detect_performance_forecast",
                           profit_threshold |-> profit_threshold,
                           profit_change |-> profit_change,
                           events |-> detect_performance_forecast(
                                          StockList[1], profit_threshold,
                                          forecast_type, profit_change,
                                          DateOnly(0))]
    /\ UNCHANGED <<sweepVars, ruleVars, regen, chat>>

\* closes of minute bars and daily moving averages, in cents
CloseSamples == {990, 1000, 1010, 1030}
MaValueSamples ==
    {[p \in {5} |-> 1000], [p \in {5, 10} |-> IF p = 5 THEN 1000 ELSE 1020]}

\* TradingEventDetector._detect_ma_cross in a sweep whose minute frame ends
\* with the bar the sweep before it read (previous_close) and the bar after
\* it (real_time_close)
CallDetectMaCross ==
    /\ probe = NoProbe
    /\ \E ma_values \in MaValueSamples, previous_close \in CloseSamples,
          real_time_close \in CloseSamples :
          probe' = [fn |-> "detect_ma_cross", ma_values |-> ma_values,
                    previous_close |-> previous_close,
                    real_time_close |-> real_time_close,
                    events |-> detect_ma_cross(StockList[1], ma_values,
                                               real_time_close, LatestBar)]
    /\ UNCHANGED <<sweepVars, ruleVars, regen, chat>>

\* configurations of the rank thresholds: the default and ones that move
\* the upper limit of a band; ranks around the limits
RankConfigs ==
    {[DefaultRankConfig EXCEPT !.top1_threshold = t1, !.top10_threshold = t10,
                               !.top50_threshold = t50] :
        t1 \in {Top1Threshold, 5}, t10 \in {Top10Threshold, 20, 60},
        t50 \in {Top50Threshold, 30}}
RankSamples == {0, 1, 2, 5, 10, 11, 20, 30, 50, 51, 55, 60, 100, 101}

\* SentimentEventDetector._detect_top_rank_events on one row of the list
CallDetectTopRank ==
    /\ probe = NoProbe
    /\ \E config \in RankConfigs, current_rank \in RankSamples :
          probe' = [fn |-> "detect_top_rank_events", config |-> config,
                    current_rank |-> current_rank,
                    events |-> detect_top_rank_events(config, StockList[1],
                                                      current_rank, FixedStamp)]
    /\ UNCHANGED <<sweepVars, ruleVars, regen, chat>>

\* the words of news texts: keywords of the categories and of the
\* sentiments, and a word that is no keyword
NewsWords == {"fed", "rate", "gdp", "growth", "regulator", "raised", "weather"}
MinMatchCounts == {DefaultMinMatchCount, DefaultMinMatchCount + 1}

\* MacroNewsEventDetector.detect, one row of the news frame
CallAnalyzeMacroNews ==
    /\ probe = NoProbe
    /\ \E content \in SUBSET NewsWords, min_match_count \in MinMatchCounts :
          /\ Cardinality(content) <= MaxHistory
          /\ probe' = [fn |-> "analyze_macro_news", content |-> content,
                       min_match_count |-> min_match_count,
                       events |-> analyze_macro_news(LatestBar, content,
                                                     min_match_count)]
    /\ UNCHANGED <<sweepVars, ruleVars, regen, chat>>

\* DailyIndicatorCalculator.get_daily_indicators, the two thresholds: the
\* frame has at least one row, and its returns have one value fewer than
\* the rows
CallDailyThresholds ==
    /\ probe = NoProbe
    /\ \E changes \in SortedSamples(ChangeSamples) \ {<<>>},
          returns \in SortedSamples(ChangeSamples) :
          /\ Len(returns) < Len(changes)
          /\ probe' = [fn |-> "daily_thresholds", changes |-> changes,
                       returns |-> returns,
                       price_jump_threshold |-> calc_price_jump_threshold(changes),
                       volatility_threshold |-> calc_volatility_threshold(returns)]
    /\ UNCHANGED <<sweepVars, ruleVars, regen, chat>>

\* CompanyIndicatorCalculator.get_company_indicators
CallCompanyThresholds ==
    /\ probe = NoProbe
    /\ \E profitOutcome \in CompanyDataOutcomes, unlockOutcome \in CompanyDataOutcomes,
          profit_changes \in SortedSamples(ProfitChangeSamples),
          unlock_ratios \in SortedSamples(UnlockRatioSamples) :
          /\ profitOutcome # "rows" => profit_changes = <<>>
          /\ unlockOutcome # "rows" => unlock_ratios = <<>>
          /\ probe' = [fn |-> "company_thresholds",
                       profit_changes |-> profit_changes,
                       unlock_ratios |-> unlock_ratios,
                       profit_change_threshold |->
                           calc_company_threshold(profitOutcome, profit_changes,
                                                  DefaultProfitThreshold),
                       unlock_ratio_threshold |->
                           calc_company_threshold(unlockOutcome, unlock_ratios,
                                                  DefaultUnlockThreshold)]
    /\ UNCHANGED <<sweepVars, ruleVars, regen, chat>>

NextDetect ==
    \/ CallTradingDetect
    \/ CallJudgeSentiment
    \/ CallDailyThresholds
    \/ CallCompanyThresholds
    \/ CallAnalyzeMacroNews
    \/ CallDetectWithHistory
    \/ CallDetectTopRank
    \/ CallDetectMaCross
    \/ CallDetectPerformanceForecast

SpecDetect == InitDetect /\ [][NextDetect]_vars

(* ------------------------------------------------------------------ *)
(* Properties of the sweep and the events store                        *)
(* ------------------------------------------------------------------ *)
\* the operations of run i the store has applied
Executed(i) ==
    IF sweep[i].pc \in {"write", "done"}
    THEN {k \in 1..Len(sweep[i].collected) : k \notin sweep[i].pending}
    ELSE {}

\* C1: every event that was persisted, however many times and by whichever
\* run, is held by exactly one document with its (event_id, event_time).
C1_UpsertIdempotent ==
    \A i \in Sweeps : \A k \in Executed(i) :
        CountKey(events, sweep[i].collected[k]) = 1

\* the same event was persisted twice in one batch and once more by the
\* other run
C1_Witness ==
    \E i \in Sweeps, j \in Sweeps :
        /\ i # j
        /\ sweep[i].pc = "done" /\ sweep[j].pc = "done"
        /\ \E k1 \in Executed(i), k2 \in Executed(i), k3 \in Executed(j) :
              /\ k1 # k2
              /\ sweep[i].collected[k1] = sweep[i].collected[k2]
              /\ sweep[i].collected[k1] = sweep[j].collected[k3]

\* C2: a stored document is never changed or removed, and an upsert whose
\* key is already stored leaves the whole store as it was.
C2_StoredEventsImmutable ==
    [][/\ \A d \in BagToSet(events) :
             CopiesIn(d, events') >= CopiesIn(d, events)
       /\ \A i \in Sweeps :
             \A k \in sweep[i].pending \ sweep'[i].pending :
                 DocsWithKey(events, sweep[i].collected[k]) # {}
                     => events' = events]_vars

\* an upsert with a stored key and other detected values has been applied
C2_Witness ==
    \E i \in Sweeps : \E k \in Executed(i) : \E d \in BagToSet(events) :
        /\ SameKey(d, sweep[i].collected[k])
        /\ d.val # sweep[i].collected[k].val

\* the runs other than i that applied an upsert with the key of doc
OtherWriters(i, doc) ==
    {j \in Sweeps \ {i} :
        \E k \in Executed(j) : SameKey(sweep[j].collected[k], doc)}

C9_NoExceptionLeavesSweep ==
    \A i \in Sweeps : sweep[i].pc # "raised"

\* C10: a provider that raises or returns nothing for one symbol does not
\* end the run, and a later symbol whose data is available and over the
\* limit still has its event in the collected list.
C10_ProviderFailureDoesNotCascade ==
    \A i \in Sweeps :
        /\ sweep[i].pc = "raised" => sweep[i].last \notin {"raises", "empty"}
        /\ sweep[i].last \in {"raises", "empty"} => sweep[i].pc = "detect"
        /\ (sweep[i].pc = "detect" /\ sweep[i].swallowed /\ sweep[i].last = "ok")
              => \E k \in 1..Len(sweep[i].collected) :
                    /\ sweep[i].collected[k].symbol = StockList[sweep[i].idx - 1]
                    /\ sweep[i].collected[k].event_type = "trading"

\* the provider failed for an earlier symbol and the event of the latest
\* symbol has been collected
C10_Witness ==
    \E i \in Sweeps :
        /\ sweep[i].pc = "detect" /\ sweep[i].swallowed /\ sweep[i].last = "ok"
        /\ \E k \in 1..Len(sweep[i].collected) :
              /\ sweep[i].collected[k].symbol = StockList[sweep[i].idx - 1]
              /\ sweep[i].collected[k].event_type = "trading"

(* ------------------------------------------------------------------ *)
(* Rule matching and reminders: properties                             *)
(* ------------------------------------------------------------------ *)
CallIds == 1..Len(calls)
RulesOf(k) == user_rule[calls[k].user_id].rule_list

\* the events get_recent_events_by_user_rule returned for the rule at
\* position r of the list, in call k
MatchedFor(k, r) ==
    LET its == SelectSeq(calls[k].matched_events, LAMBDA it : it.ridx = r)
    IN  IF its = <<>> THEN {} ELSE {its[1].events[j] : j \in 1..Len(its[1].events)}

\* the rule positions of call k whose event query was answered
Answered(k) ==
    IF calls[k].raised THEN {}
    ELSE {r \in 1..Len(RulesOf(k)) : r \notin calls[k].query_raised}

\* equality of two strings up to letter case
SameIgnoringCase(a, b) ==
    \/ a = b
    \/ {a, b} \in {{"trading", "Trading"}, {"limit_up", "LIMIT_UP"},
                   {"industry", "Industry"}}

\* a string without its leading and trailing blanks
Trimmed(a) == IF a = " 000001 " THEN "000001" ELSE IF a = "  " THEN "" ELSE a

FieldsMatch(rule, e) ==
    /\ SameIgnoringCase(e.event_type, rule.event_type)
    /\ SameIgnoringCase(e.event_subtype, rule.event_subtype)
    /\ e.symbol = Trimmed(rule.related_stock)

\* seconds from the event's stamp to now, for a stamp with a time of day
Age(e) == now.sec - e.event_time.t

\* stamped strictly inside the last five minutes
Recent(e) ==
    /\ e.event_time.kind = "full"
    /\ Age(e) >= 0
    /\ Age(e) < WindowSeconds

\* C4: a rule is matched to exactly the stored events whose event_type and
\* event_subtype equal the rule's up to letter case and whose symbol equals
\* the rule's trimmed related_stock: every returned event has the rule's
\* three fields, every recent stored event with the three fields is
\* returned, and an event of another symbol never is.
C4_RuleMatchingExact ==
    \A k \in CallIds : \A r \in Answered(k) :
        \A e \in BagToSet(events) :
            /\ e \in MatchedFor(k, r) => FieldsMatch(RulesOf(k)[r], e)
            /\ (FieldsMatch(RulesOf(k)[r], e) /\ Recent(e)) => e \in MatchedFor(k, r)

\* a rule written in other letter case and with blanks around the code got
\* the limit-up event of its symbol, while the store also held a recent
\* limit-up event of another symbol, which it did not get
C4_Witness ==
    \E k \in CallIds : \E r \in Answered(k) :
        /\ RulesOf(k)[r] = RuleCased
        /\ \E e \in MatchedFor(k, r) : e.symbol = StockList[1]
        /\ \E e \in BagToSet(events) :
              /\ e.symbol = StockList[2]
              /\ e.event_subtype = "limit_up"
              /\ Recent(e)
              /\ e \notin MatchedFor(k, r)

\* the stamp lies between now minus five minutes and now
InTrailingWindow(e) ==
    /\ e.event_time.kind = "full"
    /\ e.event_time.t <= now.sec
    /\ \/ Age(e) < WindowSeconds
       \/ Age(e) = WindowSeconds /\ now.micro = 0

\* C5: the events selected for a rule are only those stamped between now
\* minus 5 minutes and now (the claim as made): none stamped outside the
\* window is selected, one stamped 5 min 1 s before now is left out and a
\* matching one stamped 4 min 59 s before now is selected.
C5_OnlyTrailingWindow ==
    \A k \in CallIds : \A r \in Answered(k) :
        /\ \A e \in MatchedFor(k, r) : InTrailingWindow(e)
        /\ \A e \in BagToSet(events) :
              /\ (e.event_time.kind = "full" /\ Age(e) = WindowSeconds + 1)
                     => e \notin MatchedFor(k, r)
              /\ (e.event_time.kind = "full" /\ Age(e) = WindowSeconds - 1
                     /\ FieldsMatch(RulesOf(k)[r], e))
                     => e \in MatchedFor(k, r)

\* C6: every rule with matches gets exactly one render attempt in a call,
\* a rule without matches gets none, and the event rendered is the matched
\* event with the greatest event_time.
C6_OnlyLatestRendered ==
    \A k \in CallIds : ~calls[k].raised =>
        \A r \in 1..Len(RulesOf(k)) :
            LET attempts == {j \in 1..Len(calls[k].renders) :
                                 calls[k].renders[j].ridx = r}
            IN  IF MatchedFor(k, r) = {} THEN attempts = {}
                ELSE /\ Cardinality(attempts) = 1
                     /\ \A j \in attempts :
                           /\ calls[k].renders[j].event \in MatchedFor(k, r)
                           /\ \A e \in MatchedFor(k, r) :
                                 calls[k].renders[j].event.event_time.t
                                     >= e.event_time.t

\* two events matched one rule and the later one was rendered
C6_Witness ==
    \E k \in CallIds : \E j \in 1..Len(calls[k].renders) :
        LET x == calls[k].renders[j]
        IN  /\ Cardinality(MatchedFor(k, x.ridx)) = 2
            /\ x.event.event_time = LatestBar
            /\ \E e \in MatchedFor(k, x.ridx) : e.event_time = OpeningBar

\* the render attempts of all calls, as <<call, position>>
Attempts == {<<k, j>> : k \in CallIds, j \in 1..MaxRules} \cap
            UNION {{<<k, j>> : j \in 1..Len(calls[k].renders)} : k \in CallIds}
Render(a) == calls[a[1]].renders[a[2]]

\* the documents of stock_news equal to doc
Persisted(doc) == Cardinality({n \in 1..Len(stock_news) : stock_news[n] = doc})

\* the attempts whose renderer returned text, and those of them that are
\* to leave the document doc
Returned == {a \in Attempts : ~Render(a).gpt_raised}
Owed(doc) ==
    {a \in Returned : /\ Render(a).content # NoReminder
                      /\ Render(a).save_data = doc}

\* the insert of the attempt raised
InsertRaised(a) ==
    /\ ~Render(a).gpt_raised
    /\ Render(a).content # NoReminder
    /\ Render(a).failed

\* C7 (the claim as made): a pair whose renderer returned the sentinel
\* leaves no notification, and a pair whose renderer returned any other
\* text leaves exactly one notification with that text and the user's id.
C7_EveryOtherTextPersisted ==
    /\ \A a \in Returned :
          /\ Render(a).save_data.user_id = calls[a[1]].user_id
          /\ Render(a).save_data.report = Render(a).content
          /\ Persisted(Render(a).save_data) =
                 Cardinality(Owed(Render(a).save_data))
    /\ \A n \in 1..Len(stock_news) : Owed(stock_news[n]) # {}

\* C7 (amended): a pair whose renderer returned the sentinel leaves no
\* notification; a pair whose renderer returned any other text leaves
\* exactly one notification with that text and the user's id, unless the
\* insert raised, and then it leaves none and is counted as failed.
C7_OtherTextPersistedUnlessInsertRaises ==
    /\ \A a \in Returned :
          /\ Render(a).save_data.user_id = calls[a[1]].user_id
          /\ Render(a).save_data.report = Render(a).content
          /\ Persisted(Render(a).save_data) =
                 Cardinality({b \in Owed(Render(a).save_data) : ~InsertRaised(b)})
          /\ InsertRaised(a) => calls[a[1]].stats.failed_count >= 1
    /\ \A n \in 1..Len(stock_news) :
          \E a \in Owed(stock_news[n]) : ~InsertRaised(a)

\* in one call the renderer returned the sentinel for one pair and the
\* sentinel in brackets for another: only the second left a notification
C7_Witness ==
    \E a \in Returned, b \in Returned :
        /\ a[1] = b[1]
        /\ Render(a).content = NoReminder
        /\ Render(b).content = BracketedNoReminder
        /\ Persisted(Render(b).save_data) = 1
        /\ Len(stock_news) = 1

\* C8 (the claim as made): when the run is over and the active users were
\* found, every active user had its rules matched, and no failure for a
\* user or a rule was raised out of the processing of that user.
C8_FailuresIsolated ==
    (task.pc = "done" /\ task.users # <<>>) =>
        \A i \in 1..Len(task.users) :
            \E k \in CallIds : /\ calls[k].user_id = task.users[i]
                                /\ ~calls[k].raised

(* ------------------------------------------------------------------ *)
(* Event ids                                                           *)
(* ------------------------------------------------------------------ *)
\* every document a run has detected so far, and every stored document
Detected ==
    UNION {{sweep[i].collected[k] : k \in 1..Len(sweep[i].collected)} :
              i \in Sweeps}
    \cup BagToSet(events)

BoardInflowStored ==
    \E e \in BagToSet(events) :
        /\ e.symbol = BoardName
        /\ e.event_subtype = "capital_inflow_abnormal"

\* C12 (the claim as made): when the inflow event of the board, detected
\* from a net inflow of 35 against the threshold 30, is stored and the
\* board rule of a user is then evaluated within five minutes, exactly one
\* match is passed to the renderer, and when the renderer returns the
\* sentinel no notification is persisted.
C12_BoardInflowReachesRenderer ==
    [][(/\ Len(calls') = Len(calls) + 1
        /\ BoardInflowStored
        /\ ~calls'[Len(calls')].raised
        /\ calls'[Len(calls')].query_raised = {})
          => /\ Len(calls'[Len(calls')].renders) = 1
             /\ calls'[Len(calls')].renders[1].content = NoReminder
                   => stock_news' = stock_news]_vars

(* ------------------------------------------------------------------ *)
(* Detectors: properties                                               *)
(* ------------------------------------------------------------------ *)
\* the events of a subtype among the events a detector returned
OfSubtype(evs, subtype) == SelectSeq(evs, LAMBDA e : e.event_subtype = subtype)

\* C13: with a price-jump threshold of 4.2 percent and a latest change of
\* +6.5 percent for 600519, detect returns exactly one price_jump event; its
\* sentiment is positive and its trigger rule is real_time_price_jump with
\* value 6.5, threshold 4.2 and operator ">".
C13_PriceJumpExample ==
    (/\ probe.fn = "detect"
     /\ probe.symbol = "600519"
     /\ probe.price_jump_threshold = 4200
     /\ probe.real_time_pct = 6500)
        => LET jumps == OfSubtype(probe.events, "price_jump")
           IN  /\ Len(jumps) = 1
               /\ jumps[1].symbol = "600519"
               /\ jumps[1].val.sentiment = "positive"
               /\ jumps[1].val.trigger_rule =
                     [metric |-> "real_time_price_jump", value |-> 650,
                      threshold |-> 420, operator |-> ">"]

\* detect has been called with the threshold 4.2 and the change +6.5 for
\* 600519 and has returned a price_jump event
C13_Witness ==
    /\ probe.fn = "detect"
    /\ probe.symbol = "600519"
    /\ probe.price_jump_threshold = 4200
    /\ probe.real_time_pct = 6500
    /\ OfSubtype(probe.events, "price_jump") # <<>>

\* C14: the impact level of a price-jump event follows the absolute change
\* with the cut points 2, 5 and 10 percent: above 10 critical, above 5
\* high, above 2 medium, otherwise low; so 1, 3, 6 and 11 percent give low,
\* medium, high and critical, and a larger change never gives a lower level.
C14_ImpactLevelCutPoints ==
    probe.fn = "detect" =>
        \A k \in 1..Len(probe.events) :
            probe.events[k].event_subtype = "price_jump" =>
                LET d == Abs(probe.real_time_pct)
                    level == probe.events[k].val.impact_level
                IN  /\ level = "critical" <=> d > 10000
                    /\ level = "high" <=> (d > 5000 /\ d <= 10000)
                    /\ level = "medium" <=> (d > 2000 /\ d <= 5000)
                    /\ level = "low" <=> d <= 2000
                    /\ d = 1000 => level = "low"
                    /\ d = 3000 => level = "medium"
                    /\ d = 6000 => level = "high"
                    /\ d = 11000 => level = "critical"

\* a price-jump event of a change of 6 percent has been given the level high
C14_Witness ==
    /\ probe.fn = "detect"
    /\ probe.real_time_pct = 6000
    /\ \E k \in 1..Len(probe.events) :
          /\ probe.events[k].event_subtype = "price_jump"
          /\ probe.events[k].val.impact_level = "high"

\* the positive and the negative keywords of the text just judged
PosHits == KeywordCount(probe.content, PositiveKeywords)
NegHits == KeywordCount(probe.content, NegativeKeywords)

C16_ThresholdNeverBelowDefault ==
    /\ probe.fn = "daily_thresholds"
          => probe.volatility_threshold >= DefaultVolatilityThreshold
    /\ probe.fn = "company_thresholds"
          => /\ probe.profit_change_threshold >= DefaultProfitThreshold
             /\ probe.unlock_ratio_threshold >= DefaultUnlockThreshold

\* a run whose batch is through and had operations refused
BatchPartlyRefused(i) ==
    /\ sweep[i].pending = {}
    /\ sweep[i].failed # {}
    /\ sweep[i].failed # 1..Len(sweep[i].collected)

\* the operations of the batch of run i that were not refused are applied
RemainingApplied(i) ==
    \A k \in (1..Len(sweep[i].collected)) \ sweep[i].failed :
        CountKey(events, sweep[i].collected[k]) >= 1

\* C17 (the claim as made): when some writes of the bulk upsert fail, the
\* remaining writes of the batch are applied, the run prints the number of
\* inserted events, and no exception leaves the run.
C17_PartialFailureReportedAsCount ==
    \A i \in Sweeps :
        BatchPartlyRefused(i)
            => /\ RemainingApplied(i)
               /\ sweep[i].printed = sweep[i].upserted
               /\ sweep[i].pc # "raised"

\* the part of C17 the code keeps: the remaining writes are applied
C17_RemainingWritesApplied ==
    \A i \in Sweeps : BatchPartlyRefused(i) => RemainingApplied(i)

\* the rule has the three matching fields, none of them empty or null
Complete(rule) ==
    \A key \in RuleKeys :
        /\ key \in DOMAIN rule
        /\ rule[key] \notin {"", "  ", None}

\* a rule with a null field
HasNullField(rule) == \E key \in RuleKeys \cap DOMAIN rule : rule[key] = None

\* the complete rules of call k whose query was answered got every recent
\* stored event with their three fields
OtherRulesEvaluated(k) ==
    \A r \in 1..Len(RulesOf(k)) :
        (Complete(RulesOf(k)[r]) /\ r \notin calls[k].query_raised)
            => \A e \in BagToSet(events) :
                  (FieldsMatch(RulesOf(k)[r], e) /\ Recent(e))
                      => e \in MatchedFor(k, r)

\* C18 (the claim as made): a rule lacking one of the three matching
\* fields (absent, empty or null) is skipped without raising, and the other
\* rules of the same user are still evaluated in the same call.
C18_IncompleteRuleSkipped ==
    \A k \in CallIds :
        (~calls[k].lookup_raised
           /\ \E r \in 1..Len(RulesOf(k)) : ~Complete(RulesOf(k)[r]))
            => /\ ~calls[k].raised
               /\ \A r \in 1..Len(RulesOf(k)) :
                     ~Complete(RulesOf(k)[r]) => MatchedFor(k, r) = {}
               /\ OtherRulesEvaluated(k)

\* the part of C18 the code keeps: a rule with a field absent or empty, in
\* a list without null fields, is skipped and the other rules are evaluated
C18_AbsentOrEmptyRuleSkipped ==
    \A k \in CallIds :
        (~calls[k].lookup_raised
           /\ \A r \in 1..Len(RulesOf(k)) : ~HasNullField(RulesOf(k)[r]))
            => /\ ~calls[k].raised
               /\ \A r \in 1..Len(RulesOf(k)) :
                     ~Complete(RulesOf(k)[r]) => MatchedFor(k, r) = {}
               /\ OtherRulesEvaluated(k)

\* C19: a stored event whose event_time does not parse as
\* YYYY-MM-DD HH:MM:SS is left out of the matches without raising, while
\* the other events returned for the same rule, and the other rules, are
\* still processed (in calls whose rule lookup succeeds on rules without
\* null fields).
C19_UnparseableEventLeftOut ==
    \A k \in CallIds :
        (~calls[k].lookup_raised
           /\ \A r \in 1..Len(RulesOf(k)) : ~HasNullField(RulesOf(k)[r]))
            => /\ ~calls[k].raised
               /\ \A r \in 1..Len(RulesOf(k)) :
                     \A e \in MatchedFor(k, r) : e.event_time.kind = "full"
               /\ OtherRulesEvaluated(k)

\* the store held an unlock event stamped with tomorrow's date, which the
\* query of the unlock rule returns, next to an unlock event and a limit-up
\* event stamped with a time: the unlock rule got the one stamped with a
\* time, and the limit-up rule after it got its event
C19_Witness ==
    \E k \in CallIds :
        /\ ~calls[k].raised
        /\ RulesOf(k) = <<RuleUnlock, RuleExact>>
        /\ calls[k].query_raised = {}
        /\ UnlockTomorrow \in BagToSet(events)
        /\ StrGE(UnlockTomorrow.event_time, FiveMinutesAgoStr(now))
        /\ MatchedFor(k, 1) = {UnlockStamped}
        /\ MatchedFor(k, 2) = {StoredLimitUp(StockList[1], LatestBar)}

\* C20: for a user with no rule document or an empty rule list the lookup
\* returns zero matched rules and zero events without raising, and the
\* reminder step makes no render call and persists nothing.
C20_NoRulesNoReminder ==
    \A k \in CallIds :
        (~calls[k].lookup_raised /\ RulesOf(k) = <<>>)
            => /\ ~calls[k].raised
               /\ calls[k].matched_events = <<>>
               /\ calls[k].renders = <<>>
               /\ calls[k].stats.saved_reminder_count = 0
               /\ \A j \in 1..Len(stock_news) :
                     stock_news[j].user_id # calls[k].user_id

\* a user without a rule document was served while the store held events
C20_Witness ==
    \E k \in CallIds :
        /\ ~user_rule[calls[k].user_id].present
        /\ ~calls[k].raised
        /\ calls[k].renders = <<>>
        /\ events # EmptyBag

\* the trigger rule of an event holds of its own value and threshold
SatisfiesTriggerRule(rule) ==
    CASE rule.operator = ">=" -> rule.value >= rule.threshold
      [] rule.operator = "<=" -> rule.value <= rule.threshold
      [] rule.operator = ">" -> rule.value > rule.threshold
      [] rule.operator = "<" -> rule.value < rule.threshold
      [] OTHER -> FALSE

\* C21 (the claim as made): the macro news detector emits an event for a
\* news item only when the number of matched category keywords is at least
\* min_match_count, that is, every emitted macro event satisfies its own
\* trigger rule.
C21_MacroEventNeedsMinMatches ==
    probe.fn = "analyze_macro_news"
        => \A j \in 1..Len(probe.events) :
              /\ \E c \in 1..Len(MacroCategories) :
                    Cardinality(probe.content \cap MacroKeywords(MacroCategories[c]))
                        >= probe.min_match_count
              /\ SatisfiesTriggerRule(probe.events[j].val.trigger_rule)

\* C22 (the claim as made): when the daily history of a symbol is
\* unavailable the detector is not skipped and does not fail; it compares
\* the latest price change with its default thresholds, so a change at or
\* beyond the configured limit-move threshold yields a limit_up event.
C22_DetectorProceedsOnDefaults ==
    (/\ probe.fn = "detect_with_history"
     /\ probe.outcome \in {"raises", "empty"})
        => /\ ~probe.raised
           /\ ~probe.skipped
           /\ probe.real_time_pct >= LimitMoveThreshold
                 => OfSubtype(probe.events, "limit_up") # <<>>

\* C23 (the claim as made): for every row of the attention list and every
\* configuration of the four thresholds the detector emits at most one of
\* the events top1_rank, top10_rank, top50_rank, top100_rank.
C23_AtMostOneRankBand ==
    probe.fn = "detect_top_rank_events" => Len(probe.events) <= 1

\* the part of C23 the code keeps: with the default thresholds a rank gets
\* at most one event, that of the highest band that contains it
C23_AtMostOneRankBandByDefault ==
    (probe.fn = "detect_top_rank_events" /\ probe.config = DefaultRankConfig)
        => /\ Len(probe.events) <= 1
           /\ \A j \in 1..Len(probe.events) :
                 probe.events[j].event_subtype =
                     IF probe.current_rank <= Top1Threshold THEN "top1_rank"
                     ELSE IF probe.current_rank <= Top10Threshold THEN "top10_rank"
                     ELSE IF probe.current_rank <= Top50Threshold THEN "top50_rank"
                     ELSE "top100_rank"

\* the period of a moving-average event
PeriodOf(e) == IF e.event_subtype \in {"ma5_cross_up", "ma5_cross_down"} THEN 5 ELSE 10

\* C24 (the claim as made): an ma-cross event of a period is emitted only
\* when the price crossed that average between the two observations: a
\* cross-up needs the previous close at or below the average, a cross-down
\* needs it at or above; a price that stays on one side yields no event.
C24_MaCrossNeedsCrossing ==
    probe.fn = "detect_ma_cross"
        => \A j \in 1..Len(probe.events) :
              LET e == probe.events[j]
                  ma_value == probe.ma_values[PeriodOf(e)]
              IN  IF e.event_subtype \in {"ma5_cross_up", "ma10_cross_up"}
                  THEN probe.previous_close <= ma_value
                       /\ probe.real_time_close > ma_value
                  ELSE probe.previous_close >= ma_value
                       /\ probe.real_time_close < ma_value

\* C25: every performance_forecast event has impact level high or
\* critical, whatever the profit change of the forecast and whatever
\* threshold the calculator produced from the history.
C25_ForecastImpactAtLeastHigh ==
    probe.fn = "detect_performance_forecast"
        => \A j \in 1..Len(probe.events) :
              probe.events[j].val.impact_level \in {"high", "critical"}

\* a forecast of a fall by exactly the default threshold was emitted while
\* the history gave a percentile below the default
C25_Witness ==
    /\ probe.fn = "detect_performance_forecast"
    /\ probe.profit_change = -DefaultProfitThreshold
    /\ probe.profit_threshold = DefaultProfitThreshold
    /\ Len(probe.events) = 1
    /\ probe.events[1].val.impact_level = "critical"

\* the documents of stock_news that carry the user of call k
NewsOf(k) == {j \in 1..Len(stock_news) : stock_news[j].user_id = calls[k].user_id}

\* C26: whenever generate_and_save_reminder returns normally its
\* statistics are conserved: the rule-event pairs are the sentinel answers
\* plus the saved reminders plus the failures, and the saved reminders are
\* as many as the saved ids and as the documents the call inserted into
\* stock_news.
C26_StatsConserved ==
    \A k \in CallIds : ~calls[k].raised =>
        LET stats == calls[k].stats
        IN  /\ stats.total_rule_event_pairs =
                  stats.gpt_no_reminder_count + stats.saved_reminder_count
                      + stats.failed_count
            /\ stats.total_rule_event_pairs = Len(calls[k].matched_events)
            /\ stats.saved_reminder_count = Len(stats.saved_ids)
            /\ stats.saved_reminder_count = Len(SavedBy(calls[k]))
            /\ stats.saved_reminder_count = Cardinality(NewsOf(k))

\* a call with two rule-event pairs saved one reminder and failed on the
\* other or got the sentinel for it
C26_Witness ==
    \E k \in CallIds :
        /\ ~calls[k].raised
        /\ calls[k].stats.total_rule_event_pairs = 2
        /\ calls[k].stats.saved_reminder_count = 1
        /\ calls[k].stats.failed_count + calls[k].stats.gpt_no_reminder_count = 1
        /\ Cardinality(NewsOf(k)) = 1

\* the first event of the matches call k returned for the rule at r
LatestMatch(k, r) ==
    LET its == SelectSeq(calls[k].matched_events, LAMBDA it : it.ridx = r)
    IN  its[1].events[1]

\* the renders of call k for the rule at r
RendersFor(k, r) ==
    {j \in 1..Len(calls[k].renders) : calls[k].renders[j].ridx = r}

\* the documents of stock_news for event e and the user of call k
NewsFor(k, e) ==
    {j \in 1..Len(stock_news) :
        /\ stock_news[j].user_id = calls[k].user_id
        /\ stock_news[j].trade_date = e.event_time
        /\ stock_news[j].company_of_interest = e.symbol}

\* C27: notifications are not deduplicated across ticks: when two calls
\* for the same user both find the same stored event as the latest match
\* of a rule, the later call renders it again, and when the renderer gave
\* a text other than the sentinel both times (and the inserts went
\* through) stock_news holds two documents for that event.
C27_NoDeduplicationAcrossTicks ==
    \A k1 \in CallIds, k2 \in CallIds :
        (k1 < k2 /\ calls[k1].user_id = calls[k2].user_id) =>
            \A r \in 1..Len(RulesOf(k2)) :
                (/\ MatchedFor(k1, r) # {}
                 /\ MatchedFor(k2, r) # {}
                 /\ LatestMatch(k1, r) = LatestMatch(k2, r))
                    => /\ \E j \in RendersFor(k2, r) :
                             calls[k2].renders[j].event = LatestMatch(k2, r)
                       /\ (\E j1 \in RendersFor(k1, r), j2 \in RendersFor(k2, r) :
                              /\ calls[k1].renders[j1].inserted
                              /\ calls[k2].renders[j2].inserted)
                             => Cardinality(NewsFor(k2, LatestMatch(k2, r))) >= 2

\* the limit-up event of the latest bar was the latest match of the
\* limit-up rule on two ticks, the renderer gave a reminder both times, and
\* stock_news holds two documents for it
C27_Witness ==
    \E k1 \in CallIds, k2 \in CallIds :
        /\ k1 < k2
        /\ \E r \in 1..Len(RulesOf(k2)) :
              /\ MatchedFor(k1, r) # {}
              /\ MatchedFor(k2, r) # {}
              /\ LatestMatch(k1, r) = StoredLimitUp(StockList[1], LatestBar)
              /\ LatestMatch(k2, r) = StoredLimitUp(StockList[1], LatestBar)
              /\ \E j1 \in RendersFor(k1, r), j2 \in RendersFor(k2, r) :
                    /\ calls[k1].renders[j1].content = ReminderText
                    /\ calls[k2].renders[j2].content = ReminderText
                    /\ calls[k1].renders[j1].inserted
                    /\ calls[k2].renders[j2].inserted
              /\ Cardinality(NewsFor(k2, LatestMatch(k2, r))) = 2

\* the stored documents of the board detector and of the sentiment detector
FixedStampDocs ==
    {d \in BagToSet(events) : d.event_type \in {"industry", "capital_flow", "sentiment"}}

\* C28: every event of the board detector and of the sentiment detector is
\* stamped with the day at 08:56:30, so over the sweeps of one day the store
\* holds at most one document per symbol and event_subtype from these
\* detectors, and it is the document of the sweep that wrote it first,
\* whatever values later sweeps observed.
C28_OnePerDayFirstValuesKept ==
    /\ \A d \in FixedStampDocs :
          /\ d.event_time = FullTime(FixedStampSecond)
          /\ CopiesIn(d, events) = 1
          /\ \A d2 \in FixedStampDocs :
                (d2.symbol = d.symbol /\ d2.event_subtype = d.event_subtype)
                    => d2 = d
    /\ \A w \in firstWrites :
          w.doc.event_type \in {"industry", "capital_flow", "sentiment"}
              => w.doc \in FixedStampDocs

\* both sweeps are over, they observed different values of the same board
\* event, and the store holds the one document of the first writer
C28_Witness ==
    \E w \in firstWrites : \E j \in OtherWriters(w.by, w.doc) :
        /\ w.doc.event_type = "capital_flow"
        /\ sweep[w.by].pc = "done"
        /\ sweep[j].pc = "done"
        /\ sweep[j].obs # w.doc.val
        /\ \A d \in FixedStampDocs : d.event_subtype = w.doc.event_subtype => d = w.doc

\* no call of run(user_id) is in progress
Quiescent == \A p \in Callers : ~InProgress(p)

\* the documents of user_rule for the user
RuleDocsOfUser == SelectSeq(regen.docs, LAMBDA d : d.user_id = RegenUser)

\* C29 (the claim as made): in every state where no call of run(user_id)
\* is in progress, after any number of calls that may interleave, user_rule
\* holds at most one document for the user, and when the latest call
\* returned it holds exactly one, with the rule list that call generated.
C29_RegenerationReplaces ==
    Quiescent
        => /\ Len(RuleDocsOfUser) <= 1
           /\ regen.last.outcome = "returned"
                 => /\ Len(RuleDocsOfUser) = 1
                    /\ RuleDocsOfUser[1].rule_list = regen.last.rule_list

\* the part of C29 the code keeps: when no two calls overlapped, the
\* collection holds at most one document for the user, and exactly the new
\* one after a call that returned
C29_RegenerationReplacesInSequence ==
    (Quiescent /\ ~regen.overlapped)
        => /\ Len(RuleDocsOfUser) <= 1
           /\ regen.last.outcome = "returned"
                 => /\ Len(RuleDocsOfUser) = 1
                    /\ RuleDocsOfUser[1].rule_list = regen.last.rule_list

\* C30: with max_history >= 2, after any sequence of add_user_message,
\* add_assistant_message and save_history calls the stored history has at
\* most max_history messages; when the list handed to save_history was
\* longer, its first message is kept and the rest are its latest
\* max_history - 1 messages in their order.
C30_HistoryBounded ==
    (chat.max_history >= 2 /\ chat.stored.present)
        => LET stored == chat.stored.history
               given == chat.last.history
               max_history == chat.max_history
           IN  /\ Len(stored) <= max_history
               /\ Len(given) > max_history
                     => /\ Len(stored) = max_history
                        /\ stored[1] = given[1]
                        /\ \A i \in 2..max_history :
                              stored[i] = given[Len(given) - max_history + i]

\* C30 happens: a reply was appended to a full history of a manager with
\* max_history 3 whose first message differs from the oldest message kept
C30_Witness ==
    /\ chat.max_history = 3
    /\ chat.last.op = "add_assistant_message"
    /\ Len(chat.last.history) > 3
    /\ chat.last.history[1] # chat.last.history[2]
    /\ Len(chat.stored.history) = 3

====
